---- MODULE Spec2Model ----
(***************************************************************************)
(* A model of the RayCasting renderer (src/RayCasting/src): the parallel   *)
(* helper, the texture store, texture sampling, mipmap selection, the      *)
(* camera integrator and the frame pipeline of renderMain.                 *)
(*                                                                         *)
(* Numbers.  The program computes in float.  The model computes in exact   *)
(* rationals <<n, d>> (d > 0), so a value of the model is the value the    *)
(* code computes up to float rounding.  Conversions that the code makes    *)
(* (float -> int64_t, float -> size_t, float -> int, vec4 -> ivec3) are    *)
(* modelled by what they do: truncation toward zero.                       *)
(***************************************************************************)
EXTENDS Integers, Sequences, FiniteSets, TLC

VARIABLES
    call,           \* SpecPure: the last application of a pure function
    camera,         \* SpecCamera: camera::Camera (position, velocity, height)
    idle,           \* SpecCamera: updateCamera calls since velocity was last set
    inputs,         \* SpecCamera: processInput calls that set the velocity
    v0,             \* SpecCamera: the velocity that was last set
    pc,             \* Spec: position of the main thread inside the frame loop
    frame,          \* Spec: number of frames presented so far
    scene,          \* Spec: camera, level and sprites of the current frame
    threads,        \* Spec: state of the worker threads of the running pass
    screenBuffer,   \* Spec: rendering::Context::screenBuffer
    stencilBuffer,  \* Spec: rendering::Context::stencilBuffer
    depthBuffer,    \* Spec: rendering::Context::depthBuffer
    wallZ,          \* Spec: renderWalls' local zbuffer/colorBuffer/uvBuffer
    log,            \* Spec: buffer accesses of the current frame (history)
    sequential,     \* Spec: the running pass's result if its chunks ran in order (history)
    startup         \* Spec: main before the frame loop (loadTextures, window creation)

pureVars   == <<call>>
startupVars == <<startup>>
cameraVars == <<camera, idle, inputs, v0>>
bufferVars == <<screenBuffer, stencilBuffer, depthBuffer>>
renderVars == <<pc, frame, scene, threads, screenBuffer, stencilBuffer, depthBuffer, wallZ, log, sequential>>
vars       == <<call, camera, idle, inputs, v0, pc, frame, scene, threads, screenBuffer, stencilBuffer, depthBuffer, wallZ, log, sequential, startup>>

(***************************************************************************)
(* Exact rationals.                                                        *)
(***************************************************************************)
RECURSIVE Gcd(_, _)
Gcd(a, b) ==
    IF b = 0 THEN a ELSE Gcd(b, a % b)

Abs(x) ==
    IF x < 0 THEN -x ELSE x

Min(a, b) ==
    IF a < b THEN a ELSE b

Max(a, b) ==
    IF a > b THEN a ELSE b

RNorm(r) ==
    LET g == Gcd(Abs(r[1]), r[2])
    IN  IF r[1] = 0 THEN <<0, 1>> ELSE <<r[1] \div g, r[2] \div g>>

R(n, d) ==
    RNorm(<<n, d>>)

RInt(n) ==
    <<n, 1>>

RAdd(a, b) ==
    LET g == Gcd(a[2], b[2])
    IN  RNorm(<<a[1] * (b[2] \div g) + b[1] * (a[2] \div g), (a[2] \div g) * b[2]>>)

RNeg(a) ==
    <<-a[1], a[2]>>

RSub(a, b) ==
    RAdd(a, RNeg(b))

RMul(a, b) ==
    LET x == RNorm(<<a[1], b[2]>>)
        y == RNorm(<<b[1], a[2]>>)
    IN  RNorm(<<x[1] * y[1], x[2] * y[2]>>)

RDiv(a, b) ==
    IF b[1] > 0 THEN RMul(a, <<b[2], b[1]>>) ELSE RMul(a, <<-b[2], -b[1]>>)

RLt(a, b) ==
    LET g == Gcd(a[2], b[2])
    IN  a[1] * (b[2] \div g) < b[1] * (a[2] \div g)

RLe(a, b) ==
    LET g == Gcd(a[2], b[2])
    IN  a[1] * (b[2] \div g) <= b[1] * (a[2] \div g)

REq(a, b) ==
    RNorm(a) = RNorm(b)

\* C++ conversion of a floating value to an integer type: toward zero.
RTrunc(a) ==
    IF a[1] >= 0 THEN a[1] \div a[2] ELSE -((-a[1]) \div a[2])

IsRat(r) ==
    /\ r \in Int \X Int
    /\ r[2] > 0

(***************************************************************************)
(* executeInParallel (rayCasting.cpp:32-48).  The values stay far below    *)
(* 2^31, so the int variables chunkSize, start and end hold them exactly.  *)
(***************************************************************************)
chunkSize(numThreads, dataSize) ==
    dataSize \div numThreads

chunkStartOverlapping(i, numThreads, dataSize) ==
    Max(0, i * chunkSize(numThreads, dataSize) - 1)

chunkStart(i, numThreads, dataSize) ==
    i * chunkSize(numThreads, dataSize)

chunkEndNoRemainder(i, numThreads, dataSize) ==
    chunkStart(i, numThreads, dataSize) + chunkSize(numThreads, dataSize)

chunkEnd(i, numThreads, dataSize) ==
    IF i = numThreads - 1
    THEN dataSize
    ELSE chunkStart(i, numThreads, dataSize) + chunkSize(numThreads, dataSize)

\* The calls fn(start, end) that executeInParallel makes, in spawn order.
executeInParallel(numThreads, dataSize) ==
    [i \in 1..numThreads |->
        <<chunkStart(i - 1, numThreads, dataSize), chunkEnd(i - 1, numThreads, dataSize)>>]

(***************************************************************************)
(* getMipmapLevel (rayCasting.cpp:193-213); distance is a rational.        *)
(***************************************************************************)
MipThreshold1 == 10
MipThreshold2 == 20
MipThreshold3 == 40
MipThreshold4 == 80

getMipmapLevelInclusive(distance) ==
    IF RLe(distance, RInt(MipThreshold1)) THEN 0
    ELSE IF RLe(distance, RInt(MipThreshold2)) THEN 1
    ELSE IF RLe(distance, RInt(MipThreshold3)) THEN 2
    ELSE IF RLe(distance, RInt(MipThreshold4)) THEN 3
    ELSE 0

getMipmapLevel(distance) ==
    IF RLt(distance, RInt(MipThreshold1)) THEN 0
    ELSE IF RLt(distance, RInt(MipThreshold2)) THEN 1
    ELSE IF RLt(distance, RInt(MipThreshold3)) THEN 2
    ELSE IF RLt(distance, RInt(MipThreshold4)) THEN 3
    ELSE 0

(***************************************************************************)
(* media::Image (media.hpp:13-33): width, height and row-major data.  A    *)
(* pixel is <<r, g, b, a>>; a channel holds a float in [0, 1], written     *)
(* here as an integer count of 1/PixelUnit, so that the byte b of the      *)
(* bitmap (b / 255.0f, media.hpp:121-125) and three successive averages of *)
(* four pixels are all whole numbers.  data is 1-based: the code's         *)
(* data[k] is data[k + 1] here.                                            *)
(***************************************************************************)
ByteMax == 255

PixelUnit == ByteMax * 64

ByteToChannel(b) ==
    b * 64

PixelFromBytes(r, g, b) ==
    <<ByteToChannel(r), ByteToChannel(g), ByteToChannel(b), PixelUnit>>

Image(width, height, data) ==
    [width |-> width, height |-> height, data |-> data]

\* A read of data[k] with k outside the vector is undefined behaviour; the model
\* gives the pixel a fixed value and the claims speak about the index itself.
ImageAt(image, k) ==
    IF k \in 0..(image.width * image.height - 1)
    THEN image.data[k + 1]
    ELSE <<0, 0, 0, 0>>

(***************************************************************************)
(* minifyImage and createTexture (rendering.hpp:38-68).                    *)
(***************************************************************************)
minifyPixelHalved(image, i, j) ==
    LET a == ImageAt(image, (2 * i) * image.width + 2 * j)
        b == ImageAt(image, (2 * i) * image.width + 2 * j + 1)
        c == ImageAt(image, (2 * i + 1) * image.width + 2 * j)
        d == ImageAt(image, (2 * i + 1) * image.width + 2 * j + 1)
    IN  [ch \in 1..4 |-> (a[ch] + b[ch] + c[ch] + d[ch]) \div 2]

minifyPixel(image, i, j) ==
    LET a == ImageAt(image, (2 * i) * image.width + 2 * j)
        b == ImageAt(image, (2 * i) * image.width + 2 * j + 1)
        c == ImageAt(image, (2 * i + 1) * image.width + 2 * j)
        d == ImageAt(image, (2 * i + 1) * image.width + 2 * j + 1)
    IN  [ch \in 1..4 |-> (a[ch] + b[ch] + c[ch] + d[ch]) \div 4]

minifyImage(image) ==
    LET w == image.width \div 2
        h == image.height \div 2
    IN  Image(w, h, [k \in 1..(w * h) |-> minifyPixel(image, (k - 1) \div w, (k - 1) % w)])

createTexture(image) ==
    LET m1 == image
        m2 == minifyImage(m1)
        m3 == minifyImage(m2)
        m4 == minifyImage(m3)
    IN  [mipmaps |-> <<m1, m2, m3, m4>>, width |-> m1.width, height |-> m1.height]

(***************************************************************************)
(* sampleFromTexture (rayCasting.cpp:126-191).  uv is a pair of rationals. *)
(***************************************************************************)
\* uv - (int64_t)uv, plus 1 when negative (lines 128-138).
wrapNegativeMirrored(f) ==
    IF RLt(f, RInt(0)) THEN RNeg(f) ELSE f

\* Lines 131-138: a negative fraction is moved up by 1.
wrapNegative(f) ==
    IF RLt(f, RInt(0)) THEN RAdd(f, RInt(1)) ELSE f

\* Lines 128-129: uv - (int64_t)uv, then the wrap.
uvFract(u) ==
    wrapNegative(RSub(u, RInt(RTrunc(u))))

\* tx = texture.width * uvx (lines 140-141) and txi = (size_t)tx (143-144).
texelCoord(size, u) ==
    RMul(RInt(size), uvFract(u))

\* The index of getTexturePixelRepeated (line 148).
texelIndexUnwrapped(texture, x, y) ==
    y * texture.width + x

texelIndex(texture, x, y) ==
    (y % texture.height) * texture.width + (x % texture.width)

\* outColor = texture.data[...]: the float channels converted to ds::ColorRGB (ivec3).
toColorRGB(p) ==
    <<p[1] \div PixelUnit, p[2] \div PixelUnit, p[3] \div PixelUnit>>

getTexturePixelRepeated(texture, x, y) ==
    toColorRGB(ImageAt(texture, texelIndex(texture, x, y)))

\* Lines 168-169 and 182-183: the weight (int)(255.0f * (t - (float)ti)).
filterWeight(t, ti) ==
    RTrunc(RMul(RInt(ByteMax), RSub(t, RInt(ti))))

\* Lines 171-190: the 8-bit fixed-point blend of the four texels.
blendTexels(pa, pb, pcc, pd, w1, w3) ==
    LET ab(c) == pb[c] * w1 + pa[c] * (ByteMax - w1)
        cd(c) == pd[c] * w1 + pcc[c] * (ByteMax - w1)
        abcd(c) == (cd(c) * w3 + ab(c) * (ByteMax - w3)) \div (ByteMax * ByteMax)
    IN  <<abcd(1), abcd(2), abcd(3), ByteMax>>

\* Lines 151-190 for the texel coordinates tx, ty and txi, tyi.
sampleTexels(texture, tx, ty, txi, tyi, useFiltering) ==
    IF useFiltering = FALSE
    THEN Append(getTexturePixelRepeated(texture, txi, tyi), ByteMax)
    ELSE blendTexels(getTexturePixelRepeated(texture, txi, tyi),
                     getTexturePixelRepeated(texture, txi + 1, tyi),
                     getTexturePixelRepeated(texture, txi, tyi + 1),
                     getTexturePixelRepeated(texture, txi + 1, tyi + 1),
                     filterWeight(tx, txi), filterWeight(ty, tyi))

\* The indices into texture.data that one call reads (lines 154, 160-166).
readIndices(texture, txi, tyi, useFiltering) ==
    IF useFiltering = FALSE
    THEN {texelIndex(texture, txi, tyi)}
    ELSE {texelIndex(texture, txi, tyi), texelIndex(texture, txi + 1, tyi),
          texelIndex(texture, txi, tyi + 1), texelIndex(texture, txi + 1, tyi + 1)}

sampleAt(texture, tx, ty, useFiltering) ==
    sampleTexels(texture, tx, ty, RTrunc(tx), RTrunc(ty), useFiltering)

readsAt(texture, tx, ty, useFiltering) ==
    readIndices(texture, RTrunc(tx), RTrunc(ty), useFiltering)

sampleReads(texture, uv, useFiltering) ==
    readsAt(texture, texelCoord(texture.width, uv[1]), texelCoord(texture.height, uv[2]), useFiltering)

sampleFromTexture(texture, uv, useFiltering) ==
    sampleAt(texture, texelCoord(texture.width, uv[1]), texelCoord(texture.height, uv[2]), useFiltering)

(***************************************************************************)
(* SpecPure: the pure functions, each applied to inputs drawn from bounded *)
(* sets.  call records the application: its arguments and what it gave.    *)
(***************************************************************************)
MaxThreads  == 6     \* thread counts 1..MaxThreads (the passes use 3 and 6)
MaxData     == 9     \* range sizes 0..MaxData
MaxDistance == 90    \* distances up to MaxDistance, beyond the last threshold
DistanceDen == 2     \* ... in steps of 1/DistanceDen
MaxTexSize  == 3     \* sampled textures of 1..MaxTexSize texels a side
UVDen       == 4     \* uv coordinates in steps of 1/UVDen
UVRange     == 2     \* ... within [-UVRange, UVRange]
MaxShift    == 2     \* whole-number uv shifts within [-MaxShift, MaxShift]
MaxBlocks   == 2     \* images of 8, 16, ..., 8 * MaxBlocks texels a side

Distances ==
    {R(n, DistanceDen) : n \in (-DistanceDen)..(MaxDistance * DistanceDen)}

UVCoords ==
    {R(n, UVDen) : n \in (-(UVRange * UVDen + 1))..(UVRange * UVDen + 1)}

\* Texel k carries the bits of k in its channels, so neighbouring texels differ
\* after the conversion to ds::ColorRGB.
PatternPixel(k) ==
    PixelFromBytes(ByteMax * (k % 2), ByteMax * ((k \div 2) % 2), ByteMax * ((k \div 4) % 2))

PatternImage(w, h) ==
    Image(w, h, [k \in 1..(w * h) |-> PatternPixel(k - 1)])

SampleTextures ==
    {PatternImage(w, h) : w \in 1..MaxTexSize, h \in 1..MaxTexSize}

SolidBytes ==
    {<<0, 0, 0>>, <<ByteMax, 0, 0>>, <<0, ByteMax, ByteMax>>, <<200, 100, 50>>, <<ByteMax, ByteMax, ByteMax>>}

SolidImage(w, h, c) ==
    Image(w, h, [k \in 1..(w * h) |-> PixelFromBytes(c[1], c[2], c[3])])

\* Texel (x, y) = (k % w, k \div w) of a gradient: bytes that vary along both axes.
GradientImage(w, h) ==
    Image(w, h, [k \in 1..(w * h) |->
        PixelFromBytes(((k - 1) % w) * 7 % (ByteMax + 1),
                       ((k - 1) \div w) * 11 % (ByteMax + 1),
                       (k - 1) % (ByteMax + 1))])

SourceImages ==
    {SolidImage(8 * a, 8 * b, c) : a \in 1..MaxBlocks, b \in 1..MaxBlocks, c \in SolidBytes}
    \cup {GradientImage(8 * a, 8 * b) : a \in 1..MaxBlocks, b \in 1..MaxBlocks}
    \cup {PatternImage(8 * a, 8 * b) : a \in 1..MaxBlocks, b \in 1..MaxBlocks}
    \cup {SolidImage(8 * 8, 8 * 8, <<200, 100, 50>>)}

NoCall ==
    [fn |-> "none"]

CallExecuteInParallel(k, n) ==
    /\ call' = [fn |-> "executeInParallel", numThreads |-> k, dataSize |-> n,
                chunks |-> executeInParallel(k, n)]
    /\ UNCHANGED <<cameraVars, startupVars, renderVars>>

CallGetMipmapLevel(d) ==
    /\ call' = [fn |-> "getMipmapLevel", distance |-> d, level |-> getMipmapLevel(d)]
    /\ UNCHANGED <<cameraVars, startupVars, renderVars>>

CallSampleFromTexture(t, uv, f) ==
    /\ call' = [fn |-> "sampleFromTexture", texture |-> t, uv |-> uv, useFiltering |-> f,
                reads |-> sampleReads(t, uv, f), color |-> sampleFromTexture(t, uv, f)]
    /\ UNCHANGED <<cameraVars, startupVars, renderVars>>

CallCreateTexture(img) ==
    /\ call' = [fn |-> "createTexture", image |-> img, texture |-> createTexture(img)]
    /\ UNCHANGED <<cameraVars, startupVars, renderVars>>

(***************************************************************************)
(* camera::Camera and its integrator (camera.hpp:11-49).                   *)
(* front = (0, 1), fov = 90 degrees and farPlane = 100 are the member      *)
(* initialisers; no code of src/ assigns front or farPlane afterwards.     *)
(***************************************************************************)
FarPlane == 100

Front ==
    <<RInt(0), RInt(1)>>

\* tan(fov / 2) for the initial fov of 90 degrees.
TanHalfFov ==
    RInt(1)

Zero2 ==
    <<RInt(0), RInt(0)>>

V2Add(a, b) ==
    <<RAdd(a[1], b[1]), RAdd(a[2], b[2])>>

V2Sub(a, b) ==
    <<RSub(a[1], b[1]), RSub(a[2], b[2])>>

V2Scale(a, k) ==
    <<RMul(a[1], k), RMul(a[2], k)>>

V2Dot(a, b) ==
    RAdd(RMul(a[1], b[1]), RMul(a[2], b[2]))

\* glm::length(v)^2; glm::length(v) > c is compared as length^2 > c^2.
LengthSq(v) ==
    V2Dot(v, v)

FrictionThreshold ==
    R(1, 100)

\* camera.hpp:13-15: height = 1 + sin(|position| * 2) * 0.15, a value of
\* [0.85, 1.15] and exactly 1 at the origin; the sine is not computed here.
HeadHeights ==
    {R(85, 100), R(115, 100)}

headMovement(position) ==
    IF position = Zero2 THEN {RInt(1)} ELSE HeadHeights

frictionSnapEarly(velocity) ==
    IF RLt(R(1, 10), LengthSq(velocity))
    THEN V2Scale(velocity, R(1, 2))
    ELSE Zero2

friction(velocity) ==
    IF RLt(RMul(FrictionThreshold, FrictionThreshold), LengthSq(velocity))
    THEN V2Scale(velocity, R(1, 2))
    ELSE Zero2

MaxUpdates == 10    \* updateCamera calls counted after the velocity was set
MaxInputs  == 1     \* processInput calls that set the velocity

\* Velocities of magnitude exactly 1.
UnitVelocities ==
    {<<RInt(1), RInt(0)>>, <<RInt(0), RInt(-1)>>, <<R(3, 5), R(4, 5)>>, <<R(-4, 5), R(3, 5)>>}

StartVelocities ==
    UnitVelocities \cup {Zero2, <<RInt(2), RInt(0)>>, <<R(1, 100), RInt(0)>>}

\* The key combinations of processInput whose direction is along an axis:
\* W, S, D, A held alone (front and left are (0,1) and (1,0)).
KeyDirections ==
    {<<RInt(0), RInt(1)>>, <<RInt(0), RInt(-1)>>, <<RInt(1), RInt(0)>>, <<RInt(-1), RInt(0)>>}

\* Frame times deltaTimeSecs for which movementSensivity = 7 * dt is 1 and 1/100.
DeltaTimes ==
    {R(1, 7), R(1, 700)}

MovementSensivity(dt) ==
    RMul(RInt(7), dt)

InitCameraVars ==
    /\ camera = [position |-> Zero2, velocity |-> Zero2, height |-> RInt(1)]
    /\ idle = 0
    /\ inputs = 0
    /\ v0 = Zero2

\* processInput (rayCasting.cpp:472-503): a held movement key sets the velocity.
ProcessInput(direction, dt) ==
    /\ inputs < MaxInputs
    /\ inputs = 0 \/ idle > 0
    /\ camera' = [camera EXCEPT !.velocity = V2Scale(direction, MovementSensivity(dt))]
    /\ v0' = camera'.velocity
    /\ idle' = 0
    /\ inputs' = inputs + 1
    /\ UNCHANGED <<pureVars, startupVars, renderVars>>

\* updateCamera (camera.hpp:44-49).
UpdateCamera ==
    /\ idle < MaxUpdates
    /\ \E h \in headMovement(V2Add(camera.position, camera.velocity)) :
          camera' = [position |-> V2Add(camera.position, camera.velocity),
                     velocity |-> friction(camera.velocity),
                     height   |-> h]
    /\ idle' = idle + 1
    /\ UNCHANGED <<inputs, v0, pureVars, startupVars, renderVars>>

NextCamera ==
    \/ \E d \in KeyDirections, dt \in DeltaTimes : ProcessInput(d, dt)
    \/ UpdateCamera

(***************************************************************************)
(* Geometry (rayCasting.cpp:52-93).  Points are pairs of rationals.        *)
(***************************************************************************)
Cross2D(a, b) ==
    RSub(RMul(a[1], b[2]), RMul(a[2], b[1]))

\* The value whose sign orientation() tests (line 54).
orientationValue(p, q, r) ==
    RSub(RMul(RSub(q[2], p[2]), RSub(r[1], q[1])), RMul(RSub(q[1], p[1]), RSub(r[2], q[2])))

ClockWise == TRUE
CounterClockWise == FALSE

orientationStrict(p, q, r) ==
    RLt(RInt(0), orientationValue(p, q, r))

\* TRUE is Orientation::ClockWise, FALSE is CounterClockWise (line 56).
orientation(p, q, r) ==
    RLe(RInt(0), orientationValue(p, q, r))

\* SpecPure: orientation applied to three points of a grid.
GridCoords ==
    {RInt(-1), RInt(0), R(1, 2), RInt(1)}

GridPoints ==
    GridCoords \X GridCoords

CallOrientation(p, q, r) ==
    /\ call' = [fn |-> "orientation", p |-> p, q |-> q, r |-> r, result |-> orientation(p, q, r)]
    /\ UNCHANGED <<cameraVars, startupVars, renderVars>>

\* a * sqrt(n) + b >= 0 for rationals a, b and n >= 0, decided without the root.
\* With a # 0 and q = b / a the comparison is between n and q * q.
SurdGeZero(a, n, b) ==
    IF RLe(RInt(0), a) /\ RLe(RInt(0), b) THEN TRUE
    ELSE IF RLe(a, RInt(0)) /\ RLt(b, RInt(0)) THEN FALSE
    ELSE IF RLt(RInt(0), a) THEN RLe(RMul(RDiv(b, a), RDiv(b, a)), n)
    ELSE RLe(n, RMul(RDiv(b, a), RDiv(b, a)))

(***************************************************************************)
(* A ray is cast from origin p along the direction d = front - right *     *)
(* amountToOffset (line 235, before glm::normalize); the ray segment ends  *)
(* at e = p + d * farPlane / |d| (line 237).  |d| is a square root, so the *)
(* tests on e are decided from d and |d|^2:                                *)
(*   orientation(p, e, r) has the sign of orientation(p, p + d, r);        *)
(*   orientation(a, b, e) >= 0 iff                                         *)
(*       orientationValue(a, b, p) * |d| + farPlane * m >= 0,              *)
(*   with m = (b.y - a.y) * d.x - (b.x - a.x) * d.y.                       *)
(***************************************************************************)
rayEndOrientation(a, b, p, d) ==
    LET m == RSub(RMul(RSub(b[2], a[2]), d[1]), RMul(RSub(b[1], a[1]), d[2]))
    IN  SurdGeZero(orientationValue(a, b, p), LengthSq(d), RMul(RInt(FarPlane), m))

\* hasIntersection(rayLine, wall.line) (lines 59-65).
hasIntersection(p, d, wall) ==
    LET condition1 == orientation(p, V2Add(p, d), wall.start) # orientation(p, V2Add(p, d), wall.end)
        condition2 == orientation(wall.start, wall.end, p) # rayEndOrientation(wall.start, wall.end, p, d)
    IN  condition1 /\ condition2

ParallelThresholdDen == 1000

\* |cross2D(r, s)| > 0.001f for the normalized directions r and s (line 85):
\* cross2D(d, w)^2 / (|d|^2 * |w|^2) > 1 / 1000^2; d and w are not zero.
notParallel(d, w) ==
    RLt(R(1, ParallelThresholdDen * ParallelThresholdDen),
        RMul(RDiv(Cross2D(d, w), LengthSq(d)), RDiv(Cross2D(d, w), LengthSq(w))))

\* The parameter tau with intersection point p + tau * d (lines 87-89: the code's
\* t is tau * |d| along the normalized direction).
intersectionParam(p, d, wall) ==
    LET w == V2Sub(wall.end, wall.start)
    IN  RDiv(Cross2D(V2Sub(wall.start, p), w), Cross2D(d, w))

NoPoint ==
    <<>>

getIntersectionPointUnlessExactlyParallel(p, d, wall) ==
    IF ~hasIntersection(p, d, wall) THEN NoPoint
    ELSE IF Cross2D(d, V2Sub(wall.end, wall.start)) # RInt(0)
         THEN V2Add(p, V2Scale(d, intersectionParam(p, d, wall)))
         ELSE NoPoint

\* getIntersectionPoint(rayLine, wall.line) (lines 67-93): a point or NoPoint.
getIntersectionPoint(p, d, wall) ==
    IF ~hasIntersection(p, d, wall) THEN NoPoint
    ELSE IF notParallel(d, V2Sub(wall.end, wall.start))
         THEN V2Add(p, V2Scale(d, intersectionParam(p, d, wall)))
         ELSE NoPoint

RAbs(a) ==
    IF a[1] < 0 THEN RNeg(a) ELSE a

\* SpecPure: getIntersectionPoint applied to the segment from p of length
\* farPlane along d and to a second segment.
SegmentOrigins ==
    {Zero2, <<R(1, 2), RInt(-1)>>}

SegmentDirections ==
    {<<RInt(0), RInt(1)>>, <<RInt(1), RInt(1)>>, <<R(-1, 2), RInt(1)>>, <<RInt(1), RInt(0)>>,
     <<RInt(-1), RInt(-1)>>}

\* A direction whose angle with the x axis has a sine below 0.001.
NearlyAlongX ==
    <<RInt(2000), RInt(1)>>

Segment(sx, sy, ex, ey) ==
    [start |-> <<sx, sy>>, end |-> <<ex, ey>>]

Segments ==
    {Segment(RInt(-4), RInt(2), RInt(4), RInt(2)),
     Segment(RInt(1), RInt(-3), RInt(1), RInt(3)),
     Segment(RInt(-1), RInt(1), RInt(1), RInt(3)),
     Segment(RInt(-20), RInt(120), RInt(20), RInt(120)),
     Segment(RInt(3), RInt(0), RInt(9), RInt(0)),
     Segment(RInt(2), RInt(2), RInt(4), RInt(4))}

\* Segments along x: crossed by the ray from the origin along NearlyAlongX,
\* beyond its end, and behind its start.
SegmentsAlongX ==
    {Segment(RInt(-1), R(1, 50), RInt(200), R(1, 50)),
     Segment(RInt(-1), R(1, 10), RInt(200), R(1, 10)),
     Segment(RInt(-200), R(1, 50), RInt(-1), R(1, 50))}

SegmentPairs ==
    (SegmentOrigins \X SegmentDirections \X (Segments \cup SegmentsAlongX))
    \cup ({Zero2} \X {NearlyAlongX} \X SegmentsAlongX)

CallGetIntersectionPoint(p, d, segment) ==
    call' = [fn |-> "getIntersectionPoint", p |-> p, d |-> d, segment |-> segment,
             point |-> getIntersectionPoint(p, d, segment)]
    /\ UNCHANGED <<cameraVars, startupVars, renderVars>>

(***************************************************************************)
(* The screen and the frame's inputs.                                      *)
(***************************************************************************)
Width      == 5      \* context.width; odd, so that 2 * (width / 2) < width
HalfHeight == 6      \* context.height / 2; the height is even, as 600 is

Height ==
    2 * HalfHeight

Cells ==
    0..(Width * Height - 1)

rightOf(front) ==
    <<front[2], RNeg(front[1])>>

\* renderWalls, lines 226-228.
wallPlaneHeight ==
    RMul(TanHalfFov, RInt(2))

wallPlaneWidth ==
    RMul(wallPlaneHeight, R(Width, Height))

rayVectorOffset ==
    RDiv(wallPlaneWidth, RInt(Width))

\* Lines 234-235: the direction of column i before normalisation.
rayDirectionOf(i) ==
    LET amountToOffset == RMul(rayVectorOffset, RInt(i - (Width \div 2)))
    IN  V2Sub(Front, V2Scale(rightOf(Front), amountToOffset))

\* Line 249: eyeDistance * dot(frontVector, rayDirection) / farPlane.  With the
\* point at p + tau * d, eyeDistance = |tau| * |d| and dot(front, d / |d|) =
\* dot(front, d) / |d|, so the product is |tau| * dot(front, d).
cameraPlaneDistanceUnnormalized(p, d, point) ==
    RMul(RAbs(V2Dot(V2Sub(point, p), d)), RDiv(V2Dot(Front, d), LengthSq(d)))

cameraPlaneDistance(p, d, point) ==
    RDiv(RMul(RAbs(V2Dot(V2Sub(point, p), d)), RDiv(V2Dot(Front, d), LengthSq(d))), RInt(FarPlane))

\* Line 255: glm::distance(intersectionPoint, wall.line.start).  The walls are
\* axis-aligned and the point is on the wall's line, so one term is zero.
wallU(point, wall) ==
    RAdd(RAbs(RSub(point[1], wall.start[1])), RAbs(RSub(point[2], wall.start[2])))

wallReplacesOnTies(z, stored) ==
    RLe(z, stored)

\* Line 251: normalizedCameraPlaneDistance < zbuffer[i].
wallReplaces(z, stored) ==
    RLt(z, stored)

\* Lines 239-258 for one column: the walls w..Len(level) tested in order
\* against the entry acc = [z, wall, uv] of zbuffer/colorBuffer/uvBuffer.
RECURSIVE castWalls(_, _, _, _, _)
castWalls(p, d, level, w, acc) ==
    IF w > Len(level) THEN acc
    ELSE LET point == getIntersectionPoint(p, d, level[w])
             z     == cameraPlaneDistance(p, d, point)
         IN  IF point # NoPoint /\ wallReplaces(z, acc.z)
             THEN castWalls(p, d, level, w + 1, [z |-> z, wall |-> w, uv |-> wallU(point, level[w])])
             ELSE castWalls(p, d, level, w + 1, acc)

\* calculateWallZBuffer(0, numberOfRays) (lines 217-219, 230-262).
calculateWallZBuffer(position, level) ==
    [i \in 0..(Width - 1) |->
        castWalls(position, rayDirectionOf(i), level, 1, [z |-> RInt(1), wall |-> 0, uv |-> RInt(0)])]

(***************************************************************************)
(* The textures of loadTextures (rayCasting.cpp:552-580), as far as the    *)
(* passes use them: textures[0] on walls, textures[1] on the floor,        *)
(* textures[4] as sky, and a sprite texture holding the colour-key texel.  *)
(* The sky is one solid colour, for which the filtered sample is the same  *)
(* at every uv: the equirectangular uv of lines 434-442 (atan, asin) is    *)
(* not computed.                                                           *)
(***************************************************************************)
wallTexture ==
    createTexture(PatternImage(8, 8))

floorTexture ==
    createTexture(GradientImage(8, 8))

skyTexture ==
    createTexture(SolidImage(8, 8, <<ByteMax, ByteMax, ByteMax>>))

spriteTexture ==
    createTexture(PatternImage(8, 8))

(***************************************************************************)
(* The frame buffers (rendering.hpp:71-143).  A buffer maps the cell       *)
(* y * width + x to its value; a screen cell is <<r, g, b, a>> and the     *)
(* cleared word 0 is <<0, 0, 0, 0>>.                                       *)
(***************************************************************************)
ClearedPixel ==
    <<0, 0, 0, 0>>

cellOf(x, y) ==
    y * Width + x

\* buf with the writes ws, a set of <<cell, value>> with distinct cells.
writeCells(buf, ws) ==
    [c \in DOMAIN buf |->
        IF \E w \in ws : w[1] = c THEN (CHOOSE w \in ws : w[1] = c)[2] ELSE buf[c]]

\* The buffers as the memsets and the loop of clearContext leave them.
clearedBuffers ==
    [screen  |-> [c \in Cells |-> ClearedPixel],
     stencil |-> [c \in Cells |-> 0],
     depth   |-> [c \in Cells |-> RInt(1)]]

clearContextKeepsStencil(bufs) ==
    [clearedBuffers EXCEPT !.stencil = bufs.stencil]

\* clearContext (rendering.hpp:134-143).
clearContext(bufs) ==
    clearedBuffers

(***************************************************************************)
(* renderWalls, the render lambda (rayCasting.cpp:264-298), for column i.  *)
(* zb is the result of calculateWallZBuffer.                               *)
(***************************************************************************)
wallPixelDistance(zb, i) ==
    RMul(zb[i].z, RInt(FarPlane))

\* Lines 272-277: the wall's top or bottom (world height y) as a screen row.
screenWallEdge(worldY, sc, pixelDistance) ==
    RTrunc(RDiv(RMul(RDiv(RSub(RInt(worldY), sc.height), pixelDistance), RInt(Height)), wallPlaneHeight))

wallRowsUnclipped(i, sc, zb) ==
    LET pixelDistance == wallPixelDistance(zb, i)
    IN  IF RLt(pixelDistance, RInt(FarPlane))
        THEN (screenWallEdge(0, sc, pixelDistance) + 1)..(screenWallEdge(2, sc, pixelDistance) - 1)
        ELSE {}

\* The values of j of the loop of line 285.
wallRowsOf(i, sc, zb) ==
    LET pixelDistance == wallPixelDistance(zb, i)
    IN  IF RLt(pixelDistance, RInt(FarPlane))
        THEN (Max(-(Height \div 2), screenWallEdge(0, sc, pixelDistance)) + 1)
                ..(Min(Height \div 2, screenWallEdge(2, sc, pixelDistance)) - 1)
        ELSE {}

\* Line 279: the screen column of ray i.
wallScreenX(i) ==
    Width - (i + 1)

\* Lines 282-290: the colour written at loop value j.
wallPixelColor(i, j, sc, zb) ==
    LET pixelDistance == wallPixelDistance(zb, i)
        level   == getMipmapLevel(pixelDistance) * (IF sc.useMipmap THEN 1 ELSE 0)
        texture == wallTexture.mipmaps[level + 1]
        uvY     == RAdd(sc.height, RMul(RMul(RInt(j), RDiv(wallPlaneHeight, RInt(Height))), pixelDistance))
        color   == sampleFromTexture(texture, <<zb[i].uv, uvY>>, sc.useFiltering)
    IN  <<color[1], color[2], color[3], 1>>

\* The buffer accesses of column i: <<operation, buffer, cell>>.
wallAccesses(i, sc, zb) ==
    {<<"write", buf, cellOf(wallScreenX(i), Height \div 2 - j)>> :
        buf \in {"screen", "stencil", "depth"}, j \in wallRowsOf(i, sc, zb)}

wallColumn(bufs, i, sc, zb) ==
    LET rows == wallRowsOf(i, sc, zb)
        cell(j) == cellOf(wallScreenX(i), Height \div 2 - j)
    IN  [screen  |-> writeCells(bufs.screen, {<<cell(j), wallPixelColor(i, j, sc, zb)>> : j \in rows}),
         stencil |-> writeCells(bufs.stencil, {<<cell(j), 1>> : j \in rows}),
         depth   |-> writeCells(bufs.depth, {<<cell(j), zb[i].z>> : j \in rows})]

(***************************************************************************)
(* renderFloorAndCeiling, the render lambda (rayCasting.cpp:364-404), for  *)
(* ray row i.                                                              *)
(***************************************************************************)
floorPlaneHeight ==
    TanHalfFov

floorPlaneWidth ==
    RMul(floorPlaneHeight, R(Width, Height))

floorRayOffset ==
    RDiv(floorPlaneHeight, RInt(Height \div 2))

\* tanf of the float nearest to pi/2, which is what lines 377-380 compute for
\* row 0 (acos(0) is that float): a large negative number, not an infinity.
TanOfFloatHalfPi == -22877332

\* Lines 377-380: tan(angle) * eyeHeight, where the ray (1, -i * rayOffset)
\* makes the angle with straight down, so tan(angle) = 1 / (i * rayOffset).
floorIntersectionDistance(i, sc) ==
    IF i = 0
    THEN RMul(RInt(TanOfFloatHalfPi), sc.height)
    ELSE RDiv(sc.height, RMul(RInt(i), floorRayOffset))

floorScreenYMirrored(i) ==
    Height \div 2 - 1 - i

\* Line 400: the screen row of ray row i.
floorScreenY(i) ==
    i + Height \div 2

\* Lines 393-398: the colour of column j of ray row i.
floorPixelColor(i, j, sc) ==
    LET distance == floorIntersectionDistance(i, sc)
        level    == getMipmapLevel(distance) * (IF sc.useMipmap THEN 1 ELSE 0)
        texture  == floorTexture.mipmaps[level + 1]
        uvRightFactor == RMul(RMul(RInt(j - Width \div 2), RDiv(floorPlaneWidth, RInt(Width \div 2))), distance)
        uv == V2Add(V2Add(sc.position, V2Scale(Front, distance)), V2Scale(rightOf(Front), uvRightFactor))
    IN  sampleFromTexture(texture, uv, sc.useFiltering)

floorColumnsUntested(bufs, i) ==
    0..(Width - 1)

\* Lines 386-391: the columns of ray row i that are not skipped.
floorColumnsOf(bufs, i) ==
    {j \in 0..(Width - 1) : bufs.stencil[cellOf(j, floorScreenY(i))] # 1}

floorAccesses(bufs, i) ==
    {<<"read", "stencil", cellOf(j, floorScreenY(i))>> : j \in 0..(Width - 1)}
    \cup {<<"write", "screen", cellOf(j, floorScreenY(i))>> : j \in floorColumnsOf(bufs, i)}

floorRow(bufs, i, sc) ==
    [bufs EXCEPT !.screen =
        writeCells(bufs.screen,
            {<<cellOf(j, floorScreenY(i)), floorPixelColor(i, j, sc)>> : j \in floorColumnsOf(bufs, i)})]

(***************************************************************************)
(* renderBackground, the render lambda (rayCasting.cpp:411-448), row i.    *)
(***************************************************************************)
\* Line 424: j runs over 0 .. screenCenterX * 2 - 1.
backgroundColumns ==
    0..((Width \div 2) * 2 - 1)

backgroundColumnsUntested(bufs, i) ==
    backgroundColumns

\* Lines 426-429: the columns of row i that are not skipped.
backgroundColumnsOf(bufs, i) ==
    {j \in backgroundColumns : ~RLt(bufs.depth[cellOf(j, i)], RInt(1))}

\* Line 443; the sky is solid, so the uv does not matter.
skyColor ==
    sampleFromTexture(skyTexture.mipmaps[1], <<R(1, 2), R(1, 2)>>, TRUE)

backgroundAccesses(bufs, i) ==
    {<<"read", "depth", cellOf(j, i)>> : j \in backgroundColumns}
    \cup {<<"write", "screen", cellOf(j, i)>> : j \in backgroundColumnsOf(bufs, i)}

backgroundRow(bufs, i) ==
    [bufs EXCEPT !.screen =
        writeCells(bufs.screen, {<<cellOf(j, i), skyColor>> : j \in backgroundColumnsOf(bufs, i)})]

(***************************************************************************)
(* renderSprites (rayCasting.cpp:305-359), run by the main thread.         *)
(***************************************************************************)
ColorKey ==
    <<0, ByteMax, ByteMax, ByteMax>>

\* Line 315.
spriteCameraPlaneDistance(sp, sc) ==
    V2Dot(V2Sub(sp.position, sc.position), Front)

\* Lines 322-325: spriteWidth = spriteHeight.
spriteExtent(sp, distance) ==
    RMul(RDiv(sp.size, RMul(distance, TanHalfFov)), RInt(Height))

\* Lines 327-330.
spriteDistanceFcScreen(sp, sc, distance) ==
    RDiv(V2Dot(V2Sub(sp.position, V2Add(sc.position, V2Scale(Front, distance))), rightOf(Front)), distance)

\* Line 332.
spriteScreenCenterX(sp, sc, distance) ==
    RTrunc(RAdd(RDiv(RMul(spriteDistanceFcScreen(sp, sc, distance), RInt(Width \div 2)),
                     RMul(TanHalfFov, R(Width, Height))),
                RInt(Width \div 2)))

\* Line 333.
spriteScreenCenterY(sp, sc, distance) ==
    RTrunc(RAdd(RDiv(RMul(RDiv(RAdd(sc.height, sp.height), distance), RInt(Height \div 2)), TanHalfFov),
                RInt(Height \div 2)))

\* Lines 334-337: the int rectangle.
spriteRect(centerX, centerY, half) ==
    [left   |-> RTrunc(RSub(RInt(centerX), half)),
     right  |-> RTrunc(RAdd(RInt(centerX), half)),
     top    |-> RTrunc(RSub(RInt(centerY), half)),
     bottom |-> RTrunc(RAdd(RInt(centerY), half))]

\* What lines 315-337 compute for a sprite that is not culled.
spriteGeometryAt(sp, sc, distance, extent) ==
    [distance |-> distance,
     extent   |-> extent,
     depth    |-> RDiv(distance, RInt(FarPlane)),
     rect     |-> spriteRect(spriteScreenCenterX(sp, sc, distance), spriteScreenCenterY(sp, sc, distance),
                             RDiv(extent, RInt(2)))]

spriteGeometryOf(sp, sc, distance) ==
    spriteGeometryAt(sp, sc, distance, spriteExtent(sp, distance))

\* Lines 339-341: the pixels <<j, i>> (column, row) that the loops visit.
spritePixels(g) ==
    {<<j, i>> : j \in Max(g.rect.left, 0)..(Min(g.rect.right, Width) - 1),
                i \in Max(g.rect.top, 0)..(Min(g.rect.bottom, Height) - 1)}

\* Lines 345-346.
spritePixelColor(g, px) ==
    sampleFromTexture(spriteTexture.mipmaps[1],
                      <<RDiv(RInt(px[1] - g.rect.left), g.extent), RNeg(RDiv(RInt(px[2] - g.rect.top), g.extent))>>,
                      FALSE)

spriteDepthTestNone(bufs, g, px) ==
    TRUE

\* Line 343: the depth test of a visited pixel.
spriteDepthTest(bufs, g, px) ==
    RLt(g.depth, bufs.depth[cellOf(px[1], px[2])])

\* The visited pixels that are written (lines 343-354).
spriteWrites(bufs, g) ==
    {px \in spritePixels(g) : spriteDepthTest(bufs, g, px) /\ spritePixelColor(g, px) # ColorKey}

\* st = [bufs, accesses]: the buffers and the accesses made so far.
spriteApply(st, g, visited, ws) ==
    [bufs |-> [st.bufs EXCEPT
                  !.screen = writeCells(st.bufs.screen, {<<cellOf(px[1], px[2]), spritePixelColor(g, px)>> : px \in ws}),
                  !.depth  = writeCells(st.bufs.depth, {<<cellOf(px[1], px[2]), g.depth>> : px \in ws})],
     accesses |-> st.accesses
                  \cup {<<"read", "depth", cellOf(px[1], px[2])>> : px \in visited}
                  \cup {<<"write", buf, cellOf(px[1], px[2])>> : buf \in {"screen", "depth"}, px \in ws}]

drawVisibleSprite(st, g) ==
    spriteApply(st, g, spritePixels(g), spriteWrites(st.bufs, g))

\* Lines 315-320: a sprite at or behind the camera plane is skipped.
drawSpriteAt(st, sp, sc, distance) ==
    IF RLe(distance, RInt(0)) THEN st ELSE drawVisibleSprite(st, spriteGeometryOf(sp, sc, distance))

drawSprite(st, sp, sc) ==
    drawSpriteAt(st, sp, sc, spriteCameraPlaneDistance(sp, sc))

\* The sprites k..Len(sprites) drawn in list order (line 313).
RECURSIVE renderSprites(_, _, _, _)
renderSprites(st, sprites, k, sc) ==
    IF k > Len(sprites) THEN st
    ELSE renderSprites(drawSprite(st, sprites[k], sc), sprites, k + 1, sc)

(***************************************************************************)
(* The frame loop: main (rayCasting.cpp:663-673), renderMain (453-469) and *)
(* the threads of executeInParallel (32-48).                               *)
(***************************************************************************)
WallThreads       == 3    \* executeInParallel(3, numberOfRays, render), line 300
FloorThreads      == 3    \* line 406
BackgroundThreads == 6    \* line 450
MaxFrames         == 1    \* frames are counted up to MaxFrames

Passes ==
    {"walls", "floor", "background"}

numThreadsOf(pass) ==
    CASE pass = "walls" -> WallThreads
      [] pass = "floor" -> FloorThreads
      [] pass = "background" -> BackgroundThreads

\* numberOfRays of renderWalls and of renderFloorAndCeiling, screenCenterY.
dataSizeOf(pass) ==
    CASE pass = "walls" -> Width
      [] pass = "floor" -> Height \div 2
      [] pass = "background" -> Height \div 2

ThreadIds ==
    {id \in Passes \X (0..Max(WallThreads, Max(FloorThreads, BackgroundThreads))) :
        id[2] < numThreadsOf(id[1])}

NoThread ==
    [state |-> "none", next |-> 0, end |-> 0]

Buffers ==
    [screen |-> screenBuffer, stencil |-> stencilBuffer, depth |-> depthBuffer]

SetBuffers(bufs) ==
    /\ screenBuffer' = bufs.screen
    /\ stencilBuffer' = bufs.stencil
    /\ depthBuffer' = bufs.depth

At(stage) ==
    [stage |-> stage, phase |-> "main", i |-> 0]

\* The statement after a pass in renderMain (lines 463-468).
stageAfter(pass) ==
    CASE pass = "walls" -> "floor"
      [] pass = "floor" -> "sprites"
      [] pass = "background" -> "present"

\* One iteration of a pass's render lambda, and its buffer accesses.
iteration(pass, bufs, i, sc, zb) ==
    CASE pass = "walls" -> wallColumn(bufs, i, sc, zb)
      [] pass = "floor" -> floorRow(bufs, i, sc)
      [] pass = "background" -> backgroundRow(bufs, i)

accessesOf(pass, bufs, i, sc, zb) ==
    CASE pass = "walls" -> wallAccesses(i, sc, zb)
      [] pass = "floor" -> floorAccesses(bufs, i)
      [] pass = "background" -> backgroundAccesses(bufs, i)

\* The world: the level and the sprites that main builds once (lines 601-654).
Wall(sx, sy, ex, ey, color) ==
    [start |-> <<RInt(sx), RInt(sy)>>, end |-> <<RInt(ex), RInt(ey)>>, color |-> color]

Sprite(x, y, size, height) ==
    [position |-> <<x, y>>, size |-> size, height |-> height]

Worlds ==
    { [level |-> <<>>, sprites |-> <<>>],
      [level |-> <<Wall(-4, 2, 4, 2, 1)>>,
       sprites |-> <<Sprite(RInt(0), RInt(1), R(3, 10), R(-2, 10)),
                     Sprite(RInt(1), RInt(3), RInt(2), RInt(-2)),
                     Sprite(RInt(0), RInt(-2), RInt(1), RInt(0))>>],
      [level |-> <<Wall(-1, 4, 4, 4, 1), Wall(-4, 4, 1, 4, 2), Wall(1, 1, 1, 3, 3)>>,
       sprites |-> <<Sprite(R(-1, 3), RInt(2), RInt(1), RInt(-1)),
                     Sprite(R(-1, 6), RInt(1), R(1, 4), RInt(-1)),
                     Sprite(R(-1, 4), R(3, 2), R(1, 2), RInt(-1))>>],
      [level |-> <<Wall(-20, 120, 20, 120, 1), Wall(-60, 50, 60, 50, 2)>>,
       sprites |-> <<Sprite(RInt(0), RInt(150), RInt(2), RInt(-2))>>],
      [level |-> <<Wall(20, FarPlane, -20, FarPlane, 1),
                   [start |-> <<R(1, 20), R(1, 2)>>, end |-> <<RInt(1), R(1, 2)>>, color |-> 2]>>,
       sprites |-> <<>>] }

\* What processInput and updateCamera leave for the frame: the camera position
\* and height and the two toggles.  No wall of a world passes through a position.
CameraPositions ==
    {Zero2, <<R(1, 2), RInt(-1)>>}

CameraHeights ==
    {RInt(1), R(85, 100)}

Toggles ==
    {<<TRUE, TRUE>>, <<FALSE, FALSE>>}

EmptyWorld ==
    [level |-> <<>>, sprites |-> <<>>]

InitRenderVars(world) ==
    /\ pc = At("frame")
    /\ frame = 0
    /\ scene = [level |-> world.level, sprites |-> world.sprites, position |-> Zero2, height |-> RInt(1),
                useMipmap |-> TRUE, useFiltering |-> TRUE]
    /\ threads = [id \in ThreadIds |-> NoThread]
    /\ screenBuffer = clearedBuffers.screen
    /\ stencilBuffer = clearedBuffers.stencil
    /\ depthBuffer = clearedBuffers.depth
    /\ wallZ = <<>>
    /\ log = {}
    /\ sequential = clearedBuffers

(***************************************************************************)
(* main before the frame loop (rayCasting.cpp:552-596).                    *)
(* startup.stage is the position of main: in loadTextures, after it, in    *)
(* the frame loop, or exited; attempts lists the files given to            *)
(* imageFromBitMapFile, out what was printed.                              *)
(***************************************************************************)
filenames ==
    <<"assets/textures/brick.bmp", "assets/textures/mud.bmp", "assets/textures/coin.bmp",
      "assets/textures/tree1.bmp", "assets/textures/sky.bmp">>

\* The results of media::imageFromBitMapFile (media.hpp:36-141).
Decoded == "image"

DecodeErrors ==
    {"is not a BMP file", "Failed to get pixels locations", "Invalid DIB header",
     "Not supported color depth", "Failed to open file"}

startupAtEntry ==
    [stage |-> "loadTextures", file |-> 1, textures |-> 0, attempts |-> <<>>, out |-> <<>>,
     window |-> FALSE]

startupInLoop ==
    [stage |-> "loop", file |-> Len(filenames) + 1, textures |-> Len(filenames),
     attempts |-> [k \in 1..Len(filenames) |-> k], out |-> <<>>, window |-> TRUE]

loadTexturesWithoutExit(st, result) ==
    LET tried == [st EXCEPT !.attempts = Append(@, st.file), !.file = @ + 1]
        shown == IF result = Decoded THEN [tried EXCEPT !.textures = @ + 1]
                 ELSE [tried EXCEPT !.out = Append(@, <<result, filenames[st.file]>>)]
    IN  IF st.file = Len(filenames) THEN [shown EXCEPT !.stage = "initializeSDL"] ELSE shown

\* One iteration of the loop of loadTextures (lines 564-577) on the result of
\* imageFromBitMapFile(filename); the return of line 579 follows the last one.
loadTexturesIteration(st, result) ==
    LET tried == [st EXCEPT !.attempts = Append(@, st.file)]
    IN  IF result # Decoded
        THEN [tried EXCEPT !.out = Append(@, <<result, filenames[st.file]>>), !.stage = "exit"]
        ELSE [tried EXCEPT !.textures = @ + 1, !.file = @ + 1,
                           !.stage = IF st.file = Len(filenames) THEN "initializeSDL" ELSE @]

LoadTexture(result) ==
    /\ startup.stage = "loadTextures"
    /\ startup' = loadTexturesIteration(startup, result)
    /\ UNCHANGED <<pureVars, cameraVars, renderVars>>

\* main, lines 587-596: SDL, the window, the renderer and the context.
CreateWindow ==
    /\ startup.stage = "initializeSDL"
    /\ startup' = [startup EXCEPT !.stage = "loop", !.window = TRUE]
    /\ UNCHANGED <<pureVars, cameraVars, renderVars>>

\* main, lines 669-671: processInput and updateCamera fix the frame's camera.
BeginFrame(position, height, toggles) ==
    /\ startup.stage = "loop"
    /\ pc = At("frame")
    /\ scene' = [scene EXCEPT !.position = position, !.height = height,
                              !.useMipmap = toggles[1], !.useFiltering = toggles[2]]
    /\ pc' = At("clear")
    /\ log' = {}
    /\ UNCHANGED <<sequential, frame, threads, bufferVars, wallZ, pureVars, startupVars, cameraVars>>

\* renderMain, line 461.
ClearContext ==
    /\ pc = At("clear")
    /\ SetBuffers(clearContext(Buffers))
    /\ pc' = At("zbuffer")
    /\ UNCHANGED <<sequential, frame, scene, threads, wallZ, log, pureVars, startupVars, cameraVars>>

\* renderWalls, lines 217-262: the z-buffer of the columns, on the main thread.
CalculateWallZBuffer ==
    /\ pc = At("zbuffer")
    /\ wallZ' = calculateWallZBuffer(scene.position, scene.level)
    /\ pc' = [stage |-> "walls", phase |-> "spawn", i |-> 0]
    /\ UNCHANGED <<sequential, frame, scene, threads, bufferVars, log, pureVars, startupVars, cameraVars>>

\* The loop of a render lambda over i .. end - 1, run by one thread.
RECURSIVE runChunk(_, _, _, _, _, _)
runChunk(pass, bufs, i, end, sc, zb) ==
    IF i >= end THEN bufs
    ELSE runChunk(pass, iteration(pass, bufs, i, sc, zb), i + 1, end, sc, zb)

\* The chunks of a pass run one after the other, in spawn order.
RECURSIVE runChunksInOrder(_, _, _, _, _)
runChunksInOrder(pass, bufs, t, sc, zb) ==
    IF t >= numThreadsOf(pass) THEN bufs
    ELSE runChunksInOrder(pass,
                          runChunk(pass, bufs, chunkStart(t, numThreadsOf(pass), dataSizeOf(pass)),
                                   chunkEnd(t, numThreadsOf(pass), dataSizeOf(pass)), sc, zb),
                          t + 1, sc, zb)

\* executeInParallel, lines 38-43: thread i is created and starts to run.
Spawn ==
    /\ pc.phase = "spawn"
    /\ LET k == numThreadsOf(pc.stage)
           n == dataSizeOf(pc.stage)
       IN  /\ threads' = [threads EXCEPT ![<<pc.stage, pc.i>>] =
                              [state |-> IF chunkStart(pc.i, k, n) < chunkEnd(pc.i, k, n) THEN "run" ELSE "done",
                               next  |-> chunkStart(pc.i, k, n),
                               end   |-> chunkEnd(pc.i, k, n)]]
           /\ pc' = IF pc.i + 1 < k
                    THEN [pc EXCEPT !.i = pc.i + 1]
                    ELSE [pc EXCEPT !.phase = "join", !.i = 0]
    /\ sequential' = IF pc.i = 0 THEN runChunksInOrder(pc.stage, Buffers, 0, scene, wallZ) ELSE sequential
    /\ UNCHANGED <<frame, scene, bufferVars, wallZ, log, pureVars, startupVars, cameraVars>>

\* One iteration of the loop of a render lambda, run by worker id; the thread
\* has finished when its loop has run its last iteration.
WorkerStep(id) ==
    /\ threads[id].state = "run"
    /\ threads[id].next < threads[id].end
    /\ SetBuffers(iteration(id[1], Buffers, threads[id].next, scene, wallZ))
    /\ log' = log \cup {<<id[1], id[2], a[1], a[2], a[3]>> :
                            a \in accessesOf(id[1], Buffers, threads[id].next, scene, wallZ)}
    /\ threads' = [threads EXCEPT ![id].next = threads[id].next + 1,
                                  ![id].state = IF threads[id].next + 1 >= threads[id].end THEN "done" ELSE "run"]
    /\ UNCHANGED <<sequential, pc, frame, scene, wallZ, pureVars, startupVars, cameraVars>>

joinReturnsAtOnce(th) ==
    TRUE

\* thread.join() (line 46) returns once the thread has finished.
joinReturns(th) ==
    th.state = "done"

\* executeInParallel, lines 45-47, then the next statement of renderMain.
Join ==
    /\ pc.phase = "join"
    /\ joinReturns(threads[<<pc.stage, pc.i>>])
    /\ threads' = [threads EXCEPT ![<<pc.stage, pc.i>>].state =
                       IF threads[<<pc.stage, pc.i>>].state = "done" THEN "joined" ELSE @]
    /\ pc' = IF pc.i + 1 < numThreadsOf(pc.stage)
             THEN [pc EXCEPT !.i = pc.i + 1]
             ELSE IF pc.stage = "walls"
                  THEN [stage |-> "floor", phase |-> "spawn", i |-> 0]
                  ELSE At(stageAfter(pc.stage))
    /\ UNCHANGED <<sequential, frame, scene, bufferVars, wallZ, log, pureVars, startupVars, cameraVars>>

\* renderMain, line 465.
RenderSpritesTo(st) ==
    /\ SetBuffers(st.bufs)
    /\ log' = log \cup {<<"sprites", -1, a[1], a[2], a[3]>> : a \in st.accesses}

RenderSprites ==
    /\ pc = At("sprites")
    /\ RenderSpritesTo(renderSprites([bufs |-> Buffers, accesses |-> {}], scene.sprites, 1, scene))
    /\ pc' = [stage |-> "background", phase |-> "spawn", i |-> 0]
    /\ UNCHANGED <<sequential, frame, scene, threads, wallZ, pureVars, startupVars, cameraVars>>

\* renderMain, line 468: renderContext presents the screen buffer.
RenderContext ==
    /\ pc = At("present")
    /\ frame' = Min(frame + 1, MaxFrames)
    /\ threads' = [id \in ThreadIds |-> IF threads[id].state = "joined" THEN NoThread ELSE threads[id]]
    /\ pc' = At("frame")
    /\ UNCHANGED <<sequential, scene, bufferVars, wallZ, log, pureVars, startupVars, cameraVars>>

NextRender ==
    \/ \E p \in CameraPositions, h \in CameraHeights, t \in Toggles : BeginFrame(p, h, t)
    \/ ClearContext
    \/ CalculateWallZBuffer
    \/ Spawn
    \/ \E id \in ThreadIds : WorkerStep(id)
    \/ Join
    \/ RenderSprites
    \/ RenderContext

(***************************************************************************)
(* The specifications.                                                     *)
(***************************************************************************)
Init ==
    /\ \E w \in Worlds : InitRenderVars(w)
    /\ call = NoCall
    /\ InitCameraVars
    /\ startup = startupAtEntry

NextStartup ==
    \/ \E result \in {Decoded} \cup DecodeErrors : LoadTexture(result)
    \/ CreateWindow

Next ==
    \/ NextStartup
    \/ NextRender

Spec ==
    Init /\ [][Next]_vars

InitCamera ==
    /\ startup = startupInLoop
    /\ InitRenderVars(EmptyWorld)
    /\ call = NoCall
    /\ idle = 0
    /\ inputs = 0
    /\ \E v \in StartVelocities :
          /\ camera = [position |-> Zero2, velocity |-> v, height |-> RInt(1)]
          /\ v0 = v

SpecCamera ==
    InitCamera /\ [][NextCamera]_vars

\* One application per behaviour: nothing is applied once call is set.
NextPure ==
    \/ call = NoCall /\ \E k \in 1..MaxThreads, n \in 0..MaxData : CallExecuteInParallel(k, n)
    \/ call = NoCall /\ \E d \in Distances : CallGetMipmapLevel(d)
    \/ call = NoCall /\ \E t \in SampleTextures, u \in UVCoords, v \in UVCoords, f \in BOOLEAN :
                            CallSampleFromTexture(t, <<u, v>>, f)
    \/ call = NoCall /\ \E img \in SourceImages : CallCreateTexture(img)
    \/ call = NoCall /\ \E pair \in SegmentPairs : CallGetIntersectionPoint(pair[1], pair[2], pair[3])
    \/ call = NoCall /\ \E p \in GridPoints, q \in GridPoints, r \in GridPoints : CallOrientation(p, q, r)

InitPure ==
    /\ startup = startupInLoop
    /\ InitRenderVars(EmptyWorld)
    /\ InitCameraVars
    /\ call = NoCall

SpecPure ==
    InitPure /\ [][NextPure]_vars

(***************************************************************************)
(* Properties of the pure functions, checked under SpecPure.               *)
(***************************************************************************)
\* The indices start .. end - 1 of chunk i of a call of executeInParallel.
chunkCells(chunks, i) ==
    chunks[i][1]..(chunks[i][2] - 1)

\* C3: for every thread count k >= 1 and range size n >= 0, executeInParallel
\* calls fn exactly k times on contiguous half-open chunks [start, end) that are
\* pairwise disjoint and whose union is exactly [0, n); chunks 0..k-2 have size
\* floor(n/k) and the last chunk has size floor(n/k) + (n mod k).
C3_ChunksPartitionRange ==
    call.fn = "executeInParallel" =>
        LET k == call.numThreads
            n == call.dataSize
            chunks == call.chunks
        IN  /\ Len(chunks) = k
            /\ \A i \in 1..k : chunks[i][1] <= chunks[i][2]
            /\ \A i \in 1..(k - 1) : chunks[i + 1][1] = chunks[i][2]
            /\ \A i \in 1..k : \A j \in 1..k :
                  i # j => chunkCells(chunks, i) \cap chunkCells(chunks, j) = {}
            /\ UNION {chunkCells(chunks, i) : i \in 1..k} = 0..(n - 1)
            /\ \A i \in 1..(k - 1) : chunks[i][2] - chunks[i][1] = n \div k
            /\ chunks[k][2] - chunks[k][1] = (n \div k) + (n % k)

\* A call with a remainder: 8 indices on 3 threads, the last chunk takes 4..7.
C3_Witness ==
    /\ call.fn = "executeInParallel"
    /\ call.numThreads = 3
    /\ call.dataSize = 8
    /\ call.chunks = <<(<<0, 2>>), (<<2, 4>>), (<<4, 8>>)>>

\* C9: getMipmapLevel is a step function of the distance over its four ascending
\* thresholds: below the first it gives level 0, from threshold k up to (not
\* including) threshold k+1 it gives level k, at or beyond the last threshold it
\* gives level 0, and the result is always one of 0..3.
C9_MipmapLevelIsStepFunction ==
    call.fn = "getMipmapLevel" =>
        LET d == call.distance
            T == <<MipThreshold1, MipThreshold2, MipThreshold3, MipThreshold4>>
        IN  /\ \A k \in 1..3 : T[k] < T[k + 1]
            /\ call.level \in 0..3
            /\ call.level + 1 \in DOMAIN wallTexture.mipmaps
            /\ RLt(d, RInt(T[1])) => call.level = 0
            /\ \A k \in 1..3 :
                  (RLe(RInt(T[k]), d) /\ RLt(d, RInt(T[k + 1]))) => call.level = k
            /\ RLe(RInt(T[4]), d) => call.level = 0
            /\ call.level = getMipmapLevel(d)

\* A distance exactly on the second threshold selects the higher level.
C9_Witness ==
    /\ call.fn = "getMipmapLevel"
    /\ call.distance = RInt(MipThreshold2)
    /\ call.level = 2

\* uv moved by the whole numbers m and n.
uvShifted(uv, m, n) ==
    <<RAdd(uv[1], RInt(m)), RAdd(uv[2], RInt(n))>>

\* C7: without filtering sampleFromTexture depends only on the fractional part
\* of each uv coordinate: moving uv by whole numbers (m, n), positive or
\* negative, leaves the colour unchanged; uv = (1.5, -0.25) gives the colour of
\* uv = (0.5, 0.75).
C7_NearestSampleIgnoresWholeShifts ==
    (call.fn = "sampleFromTexture" /\ call.useFiltering = FALSE) =>
        /\ \A m \in (-MaxShift)..MaxShift : \A n \in (-MaxShift)..MaxShift :
              sampleFromTexture(call.texture, uvShifted(call.uv, m, n), FALSE) = call.color
        /\ call.uv = <<R(3, 2), R(-1, 4)>> =>
              call.color = sampleFromTexture(call.texture, <<R(1, 2), R(3, 4)>>, FALSE)

\* The example on a 2 x 2 texture whose four texels differ: texel (1, 1) is read.
C7_Witness ==
    /\ call.fn = "sampleFromTexture"
    /\ call.useFiltering = FALSE
    /\ call.texture = PatternImage(2, 2)
    /\ call.uv = <<R(3, 2), R(-1, 4)>>
    /\ call.reads = {3}
    /\ call.color = sampleFromTexture(call.texture, <<R(1, 2), R(3, 4)>>, FALSE)
    /\ call.color # sampleFromTexture(call.texture, <<R(1, 2), R(1, 4)>>, FALSE)

\* C8: for every texture of width and height >= 1 and every uv (negative, zero
\* or above 1), with and without filtering, every index into the texel data that
\* sampleFromTexture reads is in [0, width * height), the +1 neighbours of the
\* right and bottom edge included.
C8_TexelIndicesInRange ==
    call.fn = "sampleFromTexture" =>
        /\ call.texture.width >= 1 /\ call.texture.height >= 1
        /\ call.reads # {}
        /\ call.reads \subseteq 0..(call.texture.width * call.texture.height - 1)

\* A filtered sample in the last column and the last row, from a negative u and
\* a v above 1: the neighbours wrap to column 0 and row 0.
C8_Witness ==
    /\ call.fn = "sampleFromTexture"
    /\ call.useFiltering = TRUE
    /\ call.texture.width = 2 /\ call.texture.height = 2
    /\ call.uv = <<R(-1, 4), R(7, 4)>>
    /\ call.reads = {0, 1, 2, 3}

\* Texel (j, i) (column, row) of image, channel ch.
texelOf(image, j, i) ==
    image.data[i * image.width + j + 1]

\* C10: for an image whose width and height are divisible by 8, createTexture
\* gives exactly four mipmap levels, level k of size (width / 2^k) x
\* (height / 2^k); the texture's cached width and height are those of level 0;
\* each texel of level k+1 is the average of its 2 x 2 block of level k; and an
\* image of one solid colour gives levels whose texels all have that colour.
C10_MipmapChainIsBoxFilter ==
    call.fn = "createTexture" =>
        LET image == call.image
            texture == call.texture
            level(k) == texture.mipmaps[k + 1]
        IN  /\ image.width % 8 = 0 /\ image.height % 8 = 0
            /\ Len(texture.mipmaps) = 4
            /\ level(0) = image
            /\ texture.width = level(0).width /\ texture.height = level(0).height
            /\ \A k \in 0..3 :
                  /\ level(k).width = image.width \div (2 ^ k)
                  /\ level(k).height = image.height \div (2 ^ k)
                  /\ Len(level(k).data) = level(k).width * level(k).height
            /\ \A k \in 0..2 :
                  \A i \in 0..(level(k + 1).height - 1) : \A j \in 0..(level(k + 1).width - 1) :
                     \A ch \in 1..4 :
                        4 * texelOf(level(k + 1), j, i)[ch]
                            = texelOf(level(k), 2 * j, 2 * i)[ch] + texelOf(level(k), 2 * j + 1, 2 * i)[ch]
                              + texelOf(level(k), 2 * j, 2 * i + 1)[ch] + texelOf(level(k), 2 * j + 1, 2 * i + 1)[ch]
            /\ (\A n \in DOMAIN image.data : image.data[n] = image.data[1]) =>
                  \A k \in 0..3 : \A n \in DOMAIN level(k).data : level(k).data[n] = image.data[1]

\* The 64 x 64 image of one solid colour: levels of 64, 32, 16 and 8 texels a
\* side, the last one still of that colour.
C10_Witness ==
    /\ call.fn = "createTexture"
    /\ call.image = SolidImage(64, 64, <<200, 100, 50>>)
    /\ call.texture.mipmaps[1].width = 64 /\ call.texture.mipmaps[2].width = 32
    /\ call.texture.mipmaps[3].width = 16 /\ call.texture.mipmaps[4].width = 8
    /\ call.texture.mipmaps[4].height = 8
    /\ call.texture.mipmaps[4].data[64] = PixelFromBytes(200, 100, 50)

\* A gradient image: the averages differ from texel to texel.
C10_WitnessGradient ==
    /\ call.fn = "createTexture"
    /\ call.image = GradientImage(16, 8)
    /\ call.texture.mipmaps[2].data[1] # call.texture.mipmaps[2].data[2]

(***************************************************************************)
(* The friction of the camera, checked under SpecCamera.  idle counts the  *)
(* updateCamera calls since the velocity v0 was set.                       *)
(***************************************************************************)
\* C6: with no input applied, updateCamera calls that start from a velocity of
\* magnitude 1 leave magnitudes 1/2, 1/4, ... (the velocity is halved on each
\* update); the update that finds the magnitude below 0.01 sets the velocity to
\* exactly (0, 0), which happens after finitely many updates (the eighth), and
\* the velocity is (0, 0) after every later update.
C6_FrictionHalvesThenStops ==
    LengthSq(v0) = RInt(1) =>
        /\ idle = 0 => camera.velocity = v0
        /\ \A n \in 1..MaxUpdates :
              idle = n =>
                 IF RLt(R(1, 2 ^ (n - 1)), FrictionThreshold)
                 THEN camera.velocity = Zero2
                 ELSE /\ camera.velocity = V2Scale(v0, R(1, 2 ^ n))
                      /\ LengthSq(camera.velocity) = R(1, 4 ^ n)
        /\ idle >= 8 => camera.velocity = Zero2
        /\ idle \in 1..7 => camera.velocity # Zero2

\* The eighth update after a key set the velocity has just stopped the camera.
C6_Witness ==
    /\ inputs = 1
    /\ LengthSq(v0) = RInt(1)
    /\ idle = 8
    /\ camera.velocity = Zero2
    /\ camera.position # Zero2

\* The seventh update still halves: the velocity is v0 / 128.
C6_WitnessLastHalving ==
    /\ v0 = <<R(3, 5), R(4, 5)>>
    /\ idle = 7
    /\ camera.velocity = <<R(3, 640), R(1, 160)>>

(***************************************************************************)
(* Properties of one frame, checked under Spec.  log holds the buffer      *)
(* accesses <<pass, worker, operation, buffer, cell>> of the current frame.*)
(***************************************************************************)
\* The successive statements of main's loop body and renderMain.
renderMainOrder ==
    {<<"frame", "clear">>, <<"clear", "zbuffer">>, <<"zbuffer", "walls">>, <<"walls", "floor">>,
     <<"floor", "sprites">>, <<"sprites", "background">>, <<"background", "present">>,
     <<"present", "frame">>}

\* Some pass of the current frame has written cell c of buffer buf.
written(buf, c) ==
    \E pass \in Passes \cup {"sprites"} : \E w \in (-1)..(BackgroundThreads - 1) :
        <<pass, w, "write", buf, c>> \in log

\* C1: within one call of renderMain the steps run in the order clear buffers,
\* wall pass, floor/ceiling pass, sprite pass, background pass, present; every
\* worker thread of a pass has been joined before the next step starts, so that
\* a worker runs, and a buffer is written, only while its own pass is the
\* current step.
C1_PassesInOrderWorkersJoined ==
    /\ [][pc'.stage # pc.stage => <<pc.stage, pc'.stage>> \in renderMainOrder]_vars
    /\ [](\A id \in ThreadIds : threads[id].state \in {"run", "done"} => pc.stage = id[1])
    /\ [][\A e \in log' \ log : e[1] = pc.stage]_vars
    /\ [][bufferVars' # bufferVars => pc.stage \in {"clear", "walls", "floor", "sprites", "background"}]_vars

\* The frame is about to be presented: every pass has written, and every worker
\* thread of the three parallel passes has been joined.
C1_Witness ==
    /\ pc = At("present")
    /\ \A id \in ThreadIds : threads[id].state = "joined"
    /\ \A pass \in Passes \cup {"sprites"} : \E e \in log : e[1] = pass /\ e[3] = "write"

\* C5: at the start of every frame, whatever the earlier frames wrote, every
\* cell of the screen and the stencil buffer is 0 and every cell of the depth
\* buffer is 1.0 when the wall pass begins; a stencil or depth value that is not
\* the cleared one has been written by a pass of the current frame.
C5_BuffersClearedAtFrameStart ==
    /\ pc.stage = "zbuffer" =>
          \A c \in Cells :
             /\ screenBuffer[c] = <<0, 0, 0, 0>>
             /\ stencilBuffer[c] = 0
             /\ depthBuffer[c] = RInt(1)
    /\ pc.stage \notin {"frame", "clear"} =>
          \A c \in Cells :
             /\ stencilBuffer[c] # 0 => written("stencil", c)
             /\ depthBuffer[c] # RInt(1) => written("depth", c)

\* The wall pass of the second frame begins, in a world with walls and sprites.
C5_Witness ==
    /\ frame >= 1
    /\ pc = At("zbuffer")
    /\ Len(scene.level) > 0
    /\ Len(scene.sprites) > 0
    /\ \A c \in Cells : stencilBuffer[c] = 0 /\ depthBuffer[c] = RInt(1)

\* C2: in every frame, after clearContext and the wall, floor/ceiling and sprite
\* passes, every cell of the depth buffer holds a value in [0, 1], and every
\* cell whose depth no pass wrote holds exactly 1.0 when the background pass
\* starts (and while it runs).
C2_DepthWithinUnitRange ==
    /\ \A c \in Cells : RLe(RInt(0), depthBuffer[c]) /\ RLe(depthBuffer[c], RInt(1))
    /\ pc.stage = "background" =>
          \A c \in Cells : ~written("depth", c) => depthBuffer[c] = RInt(1)

\* The background pass starts with depths written by the wall pass, depths
\* written by the sprite pass, and cells that were left alone.
C2_Witness ==
    /\ pc = [stage |-> "background", phase |-> "spawn", i |-> 0]
    /\ \E c \in Cells : \E w \in 0..(WallThreads - 1) :
          <<"walls", w, "write", "depth", c>> \in log /\ RLt(depthBuffer[c], RInt(1))
    /\ \E c \in Cells : <<"sprites", -1, "write", "depth", c>> \in log /\ RLt(depthBuffer[c], RInt(1))
    /\ \E c \in Cells : ~written("depth", c) /\ depthBuffer[c] = RInt(1)

\* C4: in each parallel pass (walls, floor/ceiling, background), under every
\* interleaving of its worker threads, no two workers write the same cell of the
\* screen, stencil or depth buffer and no worker reads a cell that another
\* worker of the same pass writes; the buffers after the pass are those of
\* running the chunks one after the other from the buffers the pass started
\* with (sequential).
C4_WorkersDisjointAndSequential ==
    /\ \A e \in log :
          (e[1] \in Passes /\ e[3] = "write") =>
             \A w \in 0..(numThreadsOf(e[1]) - 1) :
                w # e[2] => /\ <<e[1], w, "write", e[4], e[5]>> \notin log
                            /\ <<e[1], w, "read", e[4], e[5]>> \notin log
    /\ pc = [stage |-> "floor", phase |-> "spawn", i |-> 0] => Buffers = sequential
    /\ pc = At("sprites") => Buffers = sequential
    /\ pc = At("present") => Buffers = sequential

\* The frame is complete and in each parallel pass at least two workers wrote.
C4_Witness ==
    /\ pc = At("present")
    /\ Buffers = sequential
    /\ Buffers # clearedBuffers
    /\ \A pass \in Passes :
          \E w1 \in 0..(numThreadsOf(pass) - 1) : \E w2 \in 0..(numThreadsOf(pass) - 1) :
             /\ w1 # w2
             /\ \E c \in Cells : <<pass, w1, "write", "screen", c>> \in log
             /\ \E c \in Cells : <<pass, w2, "write", "screen", c>> \in log
    /\ \E c \in Cells : \E w \in 0..(FloorThreads - 1) : <<"floor", w, "read", "stencil", c>> \in log
    /\ \E c \in Cells : \E w \in 0..(BackgroundThreads - 1) : <<"background", w, "read", "depth", c>> \in log

(***************************************************************************)
(* The wall z-buffer, checked under Spec.  wallZ belongs to the scene from *)
(* the wall pass until the frame is presented.                             *)
(***************************************************************************)
\* wallZ has been computed for the scene of the current frame.
wallZOfFrame ==
    pc.stage \in {"walls", "floor", "sprites", "background", "present"}

\* The level is one wall perpendicular to front, crossed by the ray of the
\* centre column (direction front) at a distance within (0, farPlane).
oneFacingWall ==
    /\ Len(scene.level) = 1
    /\ V2Dot(V2Sub(scene.level[1].end, scene.level[1].start), Front) = RInt(0)
    /\ RLt(RInt(0), V2Dot(V2Sub(scene.level[1].start, scene.position), Front))
    /\ RLt(V2Dot(V2Sub(scene.level[1].start, scene.position), Front), RInt(FarPlane))
    /\ hasIntersection(scene.position, Front, scene.level[1])

\* The distance D from the camera to that wall along front.
facingWallDistance ==
    V2Dot(V2Sub(scene.level[1].start, scene.position), Front)

\* C11 as stated: for the column whose ray is the front vector, with one wall
\* perpendicular to front at distance D < farPlane, the wall pass selects the
\* wall and normalizedCameraPlaneDistance of that column equals D.
C11_CentreColumnDistanceIsD ==
    (wallZOfFrame /\ oneFacingWall) =>
        /\ rayDirectionOf(Width \div 2) = Front
        /\ wallZ[Width \div 2].wall = 1
        /\ wallZ[Width \div 2].z = facingWallDistance

\* C11 amended: ... the wall pass selects the wall and
\* normalizedCameraPlaneDistance of that column equals D / farPlane (the wall
\* render lambda multiplies it by farPlane and gets D as pixelDistance).
C11_CentreColumnDistanceIsDOverFarPlane ==
    (wallZOfFrame /\ oneFacingWall) =>
        /\ rayDirectionOf(Width \div 2) = Front
        /\ wallZ[Width \div 2].wall = 1
        /\ wallZ[Width \div 2].z = RDiv(facingWallDistance, RInt(FarPlane))
        /\ wallPixelDistance(wallZ, Width \div 2) = facingWallDistance

\* The wall at y = 2 seen from (1/2, -1): D = 3 and the stored value is 3/100.
C11_Witness ==
    /\ pc = [stage |-> "walls", phase |-> "spawn", i |-> 0]
    /\ oneFacingWall
    /\ scene.position = <<R(1, 2), RInt(-1)>>
    /\ facingWallDistance = RInt(3)
    /\ wallZ[Width \div 2] = [z |-> R(3, 100), wall |-> 1, uv |-> R(9, 2)]

(***************************************************************************)
(* The background pass, checked under Spec.                                *)
(***************************************************************************)
\* The cells whose screen colour the background pass of this frame has written.
backgroundWritten ==
    {c \in Cells : \E w \in 0..(BackgroundThreads - 1) : <<"background", w, "write", "screen", c>> \in log}

\* C12 as stated: the pixels the background pass writes are exactly the pixels,
\* over all rows 0..height-1 and all columns 0..width-1, whose depth is 1.0 when
\* the pass starts (the pass leaves the depth buffer alone, so that is the depth
\* when the pass has ended); each receives a sky sample.
C12_BackgroundFillsEveryFarPixel ==
    pc = At("present") =>
        /\ backgroundWritten = {c \in Cells : depthBuffer[c] = RInt(1)}
        /\ \A c \in backgroundWritten : screenBuffer[c] = skyColor

\* C12 amended: the pixels the background pass writes are exactly the pixels of
\* the rows 0..height/2-1 (the half above the screen centre) and the columns
\* 0..2*(width/2)-1 whose depth is 1.0 when the pass starts; each receives a sky
\* sample, and no step of the pass modifies another pixel, a depth or a stencil.
C12_BackgroundFillsFarPixelsOfUpperHalf ==
    /\ [](pc = At("present") =>
             /\ backgroundWritten =
                   {c \in Cells : /\ c \div Width \in 0..(Height \div 2 - 1)
                                  /\ c % Width \in 0..((Width \div 2) * 2 - 1)
                                  /\ depthBuffer[c] = RInt(1)}
             /\ \A c \in backgroundWritten : screenBuffer[c] = skyColor)
    /\ [][(pc.stage = "background" /\ pc'.stage = "background") =>
             /\ depthBuffer' = depthBuffer
             /\ stencilBuffer' = stencilBuffer
             /\ \A c \in Cells :
                   screenBuffer'[c] # screenBuffer[c] =>
                      /\ depthBuffer[c] = RInt(1)
                      /\ c \div Width < Height \div 2
                      /\ screenBuffer'[c] = skyColor]_vars

\* The pass has run: sky in the upper half, a wall pixel of the upper half left
\* alone, and a far pixel of the lower half (floor) left alone.
C12_Witness ==
    /\ pc = At("present")
    /\ backgroundWritten # {}
    /\ \E c \in Cells : /\ c \div Width < Height \div 2
                        /\ RLt(depthBuffer[c], RInt(1))
                        /\ c \notin backgroundWritten
                        /\ screenBuffer[c] # skyColor
    /\ \E c \in Cells : /\ c \div Width >= Height \div 2
                        /\ depthBuffer[c] = RInt(1)
                        /\ c \notin backgroundWritten
                        /\ <<"floor", 0, "write", "screen", c>> \in log

(***************************************************************************)
(* getIntersectionPoint, checked under SpecPure.                           *)
(***************************************************************************)
\* cross2D of the two normalized directions has a magnitude above 0.001:
\* (cross2D(d, w) / |d|^2) * (cross2D(d, w) / |w|^2) > 1 / 1000^2.
crossAboveThreshold(d, w) ==
    RLt(R(1, ParallelThresholdDen * ParallelThresholdDen),
        RMul(RDiv(Cross2D(d, w), LengthSq(d)), RDiv(Cross2D(d, w), LengthSq(w))))

\* C13: getIntersectionPoint(l1, l2) returns a point if and only if
\* hasIntersection(l1, l2) is true and the cross product of the two normalized
\* directions has a magnitude above 0.001; in every other case (the straddle
\* test fails, or the directions are nearly parallel although the test passes)
\* it returns no value.  A returned point lies on the lines of both segments.
C13_PointIffStraddleAndNotParallel ==
    call.fn = "getIntersectionPoint" =>
        LET w == V2Sub(call.segment.end, call.segment.start)
        IN  /\ (call.point # NoPoint) <=>
                   (hasIntersection(call.p, call.d, call.segment) /\ crossAboveThreshold(call.d, w))
            /\ call.point # NoPoint =>
                   /\ Cross2D(V2Sub(call.point, call.segment.start), w) = RInt(0)
                   /\ Cross2D(V2Sub(call.point, call.p), call.d) = RInt(0)

\* The straddle test passes for a ray that is nearly parallel to the segment
\* (the sine of the angle is below 0.001): no value is returned.
C13_Witness ==
    /\ call.fn = "getIntersectionPoint"
    /\ call.d = NearlyAlongX
    /\ hasIntersection(call.p, call.d, call.segment)
    /\ Cross2D(call.d, V2Sub(call.segment.end, call.segment.start)) # RInt(0)
    /\ call.point = NoPoint

\* A crossing at an angle returns the crossing point.
C13_WitnessPoint ==
    /\ call.fn = "getIntersectionPoint"
    /\ call.p = Zero2
    /\ call.d = <<RInt(1), RInt(1)>>
    /\ call.segment = Segment(RInt(-4), RInt(2), RInt(4), RInt(2))
    /\ call.point = <<RInt(2), RInt(2)>>

(***************************************************************************)
(* Start-up, checked under Spec.                                           *)
(***************************************************************************)
\* A frame has begun: the main thread has left the top of the first frame.
frameHasRun ==
    pc # At("frame") \/ frame > 0

\* C14: when the decoding of a texture file returns an error, the process
\* prints that error and terminates: the failing file was decoded once, no
\* file after it was decoded, no window exists and no frame has run.  A window
\* exists or a frame has run only after every file was decoded without error.
C14_DecodeErrorExitsBeforeWindowAndFrames ==
    /\ startup.out # <<>> =>
           /\ startup.stage = "exit"
           /\ Len(startup.out) = 1
           /\ startup.out[1][1] \in DecodeErrors
           /\ startup.out[1][2] = filenames[Len(startup.attempts)]
           /\ startup.attempts = [k \in 1..Len(startup.attempts) |-> k]
           /\ startup.textures = Len(startup.attempts) - 1
           /\ ~startup.window
           /\ ~frameHasRun
           /\ ~ENABLED Next
    /\ (startup.window \/ frameHasRun) =>
           /\ startup.textures = Len(filenames)
           /\ startup.attempts = [k \in 1..Len(filenames) |-> k]
           /\ startup.out = <<>>

\* The third file fails to decode after two textures were loaded.
C14_Witness ==
    /\ startup.stage = "exit"
    /\ startup.attempts = <<1, 2, 3>>
    /\ startup.textures = 2
    /\ startup.out = <<<<"Invalid DIB header", filenames[3]>>>>

\* All five textures are loaded and a frame is being rendered.
C14_WitnessFrame ==
    /\ startup.textures = Len(filenames)
    /\ pc.stage = "walls"

(***************************************************************************)
(* The wall selected for a column, checked under Spec.                     *)
(***************************************************************************)
\* calculateWallZBuffer has returned and the render lambda has not started.
wallZComputed ==
    pc = [stage |-> "walls", phase |-> "spawn", i |-> 0]

\* The walls of the level the ray of column i intersects.
wallsHit(i) ==
    {w \in 1..Len(scene.level) :
        getIntersectionPoint(scene.position, rayDirectionOf(i), scene.level[w]) # NoPoint}

\* normalizedCameraPlaneDistance of wall w on the ray of column i.
wallDistance(i, w) ==
    cameraPlaneDistance(scene.position, rayDirectionOf(i),
                        getIntersectionPoint(scene.position, rayDirectionOf(i), scene.level[w]))

\* w is the first wall in level order among the nearest walls the ray of
\* column i intersects.
firstNearestWall(i, w) ==
    /\ w \in wallsHit(i)
    /\ \A o \in wallsHit(i) :
          \/ RLt(wallDistance(i, w), wallDistance(i, o))
          \/ wallDistance(i, w) = wallDistance(i, o) /\ w <= o

\* The texture U of wall w on the ray of column i.
wallUOf(i, w) ==
    wallU(getIntersectionPoint(scene.position, rayDirectionOf(i), scene.level[w]), scene.level[w])

\* wall w with its distance and texture U is what column i stores.
wallStored(i, w) ==
    /\ wallZ[i].z = wallDistance(i, w)
    /\ wallZ[i].wall = w
    /\ wallZ[i].uv = wallUOf(i, w)

\* Column i holds what renderWalls initialised it with (lines 217-219).
nothingStored(i) ==
    /\ wallZ[i].z = RInt(1)
    /\ wallZ[i].wall = 0
    /\ wallZ[i].uv = RInt(0)

\* C15 as stated: for every column, after every wall was tested, the stored
\* distance is the least camera-plane distance over the walls the ray
\* intersects (1.0 when none), and the stored wall and texture U are those of
\* the first wall in level order at that distance.
C15_FirstNearestWallStored ==
    wallZComputed =>
        \A i \in 0..(Width - 1) :
            /\ wallsHit(i) = {} => wallZ[i].z = RInt(1)
            /\ \A w \in wallsHit(i) : firstNearestWall(i, w) => wallStored(i, w)

\* C15 amended: ... and, when that distance is below 1.0, the stored wall and
\* texture U are those of the first wall in level order at that distance; a
\* later wall at the same distance never replaces an earlier one.  When no
\* intersected wall is nearer than 1.0 the column keeps its initial entries.
C15_FirstNearestWallBelowOneStored ==
    wallZComputed =>
        \A i \in 0..(Width - 1) :
            /\ wallsHit(i) = {} => nothingStored(i)
            /\ \A w \in wallsHit(i) :
                  firstNearestWall(i, w) =>
                      IF RLt(wallDistance(i, w), RInt(1)) THEN wallStored(i, w)
                      ELSE nothingStored(i) /\ wallDistance(i, w) = RInt(1)

\* Two walls at the same distance on one ray: the earlier one is stored.
C15_Witness ==
    /\ wallZComputed
    /\ \E i \in 0..(Width - 1) :
          /\ {1, 2} \subseteq wallsHit(i)
          /\ wallDistance(i, 1) = wallDistance(i, 2)
          /\ wallZ[i].wall = 1

\* A wall crossed exactly at the end of the ray, at distance 1.0.
C15_WitnessAtFarPlane ==
    /\ wallZComputed
    /\ \E i \in 0..(Width - 1) :
          /\ wallsHit(i) = {1}
          /\ wallDistance(i, 1) = RInt(1)
          /\ wallZ[i].wall = 0

(***************************************************************************)
(* The floor pass, checked under Spec.                                     *)
(***************************************************************************)
\* C16: no step of the floor/ceiling pass changes the screen colour of a pixel
\* whose stencil value is 1 (written by the wall pass of the same frame), and
\* no step of it changes the stencil buffer or the depth buffer.
C16_FloorKeepsWallPixelsStencilAndDepth ==
    [][pc.stage = "floor" =>
          /\ stencilBuffer' = stencilBuffer
          /\ depthBuffer' = depthBuffer
          /\ \A c \in Cells : stencilBuffer[c] = 1 => screenBuffer'[c] = screenBuffer[c]]_vars

\* A floor worker has tested a pixel of the lower half that the wall pass
\* drew, left it alone, and written another pixel of the same pass.
C16_Witness ==
    /\ pc.stage = "floor"
    /\ \E c \in Cells, k \in 0..(FloorThreads - 1) :
          /\ stencilBuffer[c] = 1
          /\ <<"floor", k, "read", "stencil", c>> \in log
          /\ screenBuffer[c] = sequential.screen[c]
          /\ screenBuffer[c] # ClearedPixel
          /\ \E c2 \in Cells : /\ <<"floor", k, "write", "screen", c2>> \in log
                               /\ screenBuffer[c2] # ClearedPixel

(***************************************************************************)
(* The sprite pass, checked under Spec.  In the state that follows         *)
(* renderSprites, sequential still holds the buffers the pass started      *)
(* with: the floor pass's result, whose depths are the wall pass's.        *)
(***************************************************************************)
spritesDrawn ==
    pc = [stage |-> "background", phase |-> "spawn", i |-> 0]

\* The sprites in front of the camera plane (line 317).
visibleSprites ==
    {k \in 1..Len(scene.sprites) : RLt(RInt(0), spriteCameraPlaneDistance(scene.sprites[k], scene))}

spriteGeometry(k) ==
    spriteGeometryOf(scene.sprites[k], scene, spriteCameraPlaneDistance(scene.sprites[k], scene))

\* The texel of the decoded image of a bitmap pixel with red 0, green 255,
\* blue 255 (media.hpp:118-128).
CyanPixel ==
    PixelFromBytes(0, ByteMax, ByteMax)

\* Sprite k visits cell c in its loops (lines 339-341).
spriteVisits(k, c) ==
    <<c % Width, c \div Width>> \in spritePixels(spriteGeometry(k))

\* The texel of the decoded image that sprite k samples for cell c (lines
\* 345-346 and 140-148).
spriteTexel(k, c) ==
    LET g  == spriteGeometry(k)
        t  == spriteTexture.mipmaps[1]
        tx == texelCoord(t.width, RDiv(RInt((c % Width) - g.rect.left), g.extent))
        ty == texelCoord(t.height, RNeg(RDiv(RInt((c \div Width) - g.rect.top), g.extent)))
    IN  ImageAt(t, texelIndex(t, RTrunc(tx), RTrunc(ty)))

\* Sprite k covers cell c with a texel that is not pure cyan in the image.
spriteCoversOpaque(k, c) ==
    spriteVisits(k, c) /\ spriteTexel(k, c) # CyanPixel

\* The depth of cell c after the wall pass and the normalized distances of
\* the sprites that cover it with a texel that is not transparent.
opaqueDepthCandidates(c) ==
    {sequential.depth[c]}
    \cup {spriteGeometry(k).depth : k \in {v \in visibleSprites : spriteCoversOpaque(v, c)}}

\* Sprite k covers cell c with a sample that the test of line 348 lets through.
spriteCovers(k, c) ==
    /\ <<c % Width, c \div Width>> \in spritePixels(spriteGeometry(k))
    /\ spritePixelColor(spriteGeometry(k), <<c % Width, c \div Width>>) # ColorKey

\* The depth of cell c after the wall pass and the normalized distances of
\* the sprites whose sample for it passes the test of line 348.
depthCandidates(c) ==
    {sequential.depth[c]} \cup {spriteGeometry(k).depth : k \in {v \in visibleSprites : spriteCovers(v, c)}}

spritesPermuted(perm) ==
    [k \in 1..Len(scene.sprites) |-> scene.sprites[perm[k]]]

\* C17: the sprite pass writes a pixel only where the stored depth was
\* strictly greater than the sprite's distance / farPlane and stores that
\* value; the final depth of every pixel is the minimum of its depth after
\* the wall pass and the normalized distances of the sprites covering it with
\* a texel that is not transparent, for every ordering of the sprite list; a
\* pixel of a nearer wall or sprite is never overwritten.
C17_SpriteDepthIsMinimumInEveryOrder ==
    spritesDrawn =>
        /\ \A c \in Cells :
              /\ depthBuffer[c] \in opaqueDepthCandidates(c)
              /\ \A v \in opaqueDepthCandidates(c) : RLe(depthBuffer[c], v)
              /\ <<"sprites", -1, "write", "depth", c>> \in log <=> RLt(depthBuffer[c], sequential.depth[c])
              /\ <<"sprites", -1, "write", "screen", c>> \in log <=> RLt(depthBuffer[c], sequential.depth[c])
              /\ ~RLt(depthBuffer[c], sequential.depth[c]) => screenBuffer[c] = sequential.screen[c]
        /\ \A perm \in Permutations(1..Len(scene.sprites)) :
              renderSprites([bufs |-> sequential, accesses |-> {}], spritesPermuted(perm), 1, scene).bufs.depth
                  = depthBuffer

\* What the code does keep: the same with the sprites whose sample passes the
\* test of line 348, which no texel fails.
SpriteDepthIsMinimumOverKeyTest ==
    spritesDrawn =>
        /\ \A c \in Cells :
              /\ depthBuffer[c] \in depthCandidates(c)
              /\ \A v \in depthCandidates(c) : RLe(depthBuffer[c], v)
              /\ <<"sprites", -1, "write", "depth", c>> \in log <=> RLt(depthBuffer[c], sequential.depth[c])
              /\ <<"sprites", -1, "write", "screen", c>> \in log <=> RLt(depthBuffer[c], sequential.depth[c])
              /\ ~RLt(depthBuffer[c], sequential.depth[c]) => screenBuffer[c] = sequential.screen[c]
        /\ \A perm \in Permutations(1..Len(scene.sprites)) :
              renderSprites([bufs |-> sequential, accesses |-> {}], spritesPermuted(perm), 1, scene).bufs.depth
                  = depthBuffer

\* Two sprites cover a pixel and the later one in the list is nearer: the
\* pixel holds the later one's depth; another pixel covered by a sprite
\* behind a wall keeps the wall's depth.
LaterNearerSprite ==
    /\ spritesDrawn
    /\ \E c \in Cells : \E k1, k2 \in visibleSprites :
          /\ k1 < k2
          /\ spriteCovers(k1, c) /\ spriteCovers(k2, c)
          /\ RLt(spriteGeometry(k2).depth, spriteGeometry(k1).depth)
          /\ RLt(spriteGeometry(k1).depth, sequential.depth[c])
          /\ depthBuffer[c] = spriteGeometry(k2).depth

\* A sprite behind a wall covers a wall pixel, which keeps its depth and colour.
SpriteBehindWall ==
    /\ spritesDrawn
    /\ \E c \in Cells : \E k \in visibleSprites :
          /\ spriteCovers(k, c)
          /\ stencilBuffer[c] = 1
          /\ RLt(sequential.depth[c], spriteGeometry(k).depth)
          /\ depthBuffer[c] = sequential.depth[c]
          /\ screenBuffer[c] = sequential.screen[c]

(***************************************************************************)
(* The colour key of the sprite pass, checked under Spec.                  *)
(***************************************************************************)
\* C18: a sprite texel that is pure cyan in the decoded image is transparent:
\* a pixel for which every sprite that visits it samples a cyan texel is
\* written by the sprite pass neither in the screen buffer nor in the depth
\* buffer, and keeps what was behind the sprite.
C18_CyanTexelsAreTransparent ==
    spritesDrawn =>
        \A c \in Cells :
            (\A k \in visibleSprites : spriteVisits(k, c) => spriteTexel(k, c) = CyanPixel) =>
                /\ <<"sprites", -1, "write", "screen", c>> \notin log
                /\ <<"sprites", -1, "write", "depth", c>> \notin log
                /\ screenBuffer[c] = sequential.screen[c]
                /\ depthBuffer[c] = sequential.depth[c]

(***************************************************************************)
(* orientation, checked under SpecPure.                                    *)
(***************************************************************************)
\* The signed 2D cross product (q - p) x (r - q).
turnCross(p, q, r) ==
    RSub(RMul(RSub(q[1], p[1]), RSub(r[2], q[2])), RMul(RSub(q[2], p[2]), RSub(r[1], q[1])))

\* C19 as stated: orientation(p, q, r) is ClockWise exactly when
\* (q.x-p.x)*(r.y-q.y) - (q.y-p.y)*(r.x-q.x) >= 0, and CounterClockWise
\* otherwise.
C19_ClockWiseIffCrossNotNegative ==
    call.fn = "orientation" =>
        call.result = (IF RLe(RInt(0), turnCross(call.p, call.q, call.r)) THEN ClockWise ELSE CounterClockWise)

\* C19 amended: orientation(p, q, r) is ClockWise exactly when
\* (q.x-p.x)*(r.y-q.y) - (q.y-p.y)*(r.x-q.x) <= 0, and CounterClockWise
\* otherwise; collinear triples (cross product 0) give ClockWise.
C19_ClockWiseIffCrossNotPositive ==
    call.fn = "orientation" =>
        call.result = (IF RLe(turnCross(call.p, call.q, call.r), RInt(0)) THEN ClockWise ELSE CounterClockWise)

\* A right turn (cross product below 0) is ClockWise.
C19_Witness ==
    /\ call.fn = "orientation"
    /\ call.p = <<RInt(0), RInt(0)>> /\ call.q = <<RInt(0), RInt(1)>> /\ call.r = <<RInt(1), RInt(1)>>
    /\ RLt(turnCross(call.p, call.q, call.r), RInt(0))
    /\ call.result = ClockWise

\* Three distinct points of a line are ClockWise.
C19_WitnessCollinear ==
    /\ call.fn = "orientation"
    /\ call.p = <<RInt(-1), RInt(-1)>> /\ call.q = <<RInt(0), RInt(0)>> /\ call.r = <<R(1, 2), R(1, 2)>>
    /\ turnCross(call.p, call.q, call.r) = RInt(0)
    /\ call.result = ClockWise

\* A left turn (cross product above 0) is CounterClockWise.
C19_WitnessLeftTurn ==
    /\ call.fn = "orientation"
    /\ RLt(RInt(0), turnCross(call.p, call.q, call.r))
    /\ call.result = CounterClockWise

(***************************************************************************)
(* The rows of the floor pass, checked under Spec.                         *)
(***************************************************************************)
\* The floor pass has been joined and the sprite pass has not run.
floorDrawn ==
    pc = At("sprites")

\* A worker of the floor pass wrote the screen colour of cell c.
floorWrote(c) ==
    \E k \in 0..(FloorThreads - 1) : <<"floor", k, "write", "screen", c>> \in log

\* C20 as stated: for each of the height/2 ray rows i the floor/ceiling pass
\* writes the non-wall pixels of row height/2 + i and of the mirrored row
\* above the centre, height/2 - 1 - i.
C20_FloorAndMirroredRowsWritten ==
    floorDrawn =>
        \A i \in 0..(Height \div 2 - 1), j \in 0..(Width - 1) :
            /\ stencilBuffer[cellOf(j, Height \div 2 + i)] # 1 => floorWrote(cellOf(j, Height \div 2 + i))
            /\ stencilBuffer[cellOf(j, Height \div 2 - 1 - i)] # 1 => floorWrote(cellOf(j, Height \div 2 - 1 - i))

\* C20 amended: for each of the height/2 ray rows i the floor/ceiling pass
\* writes the non-wall pixels of row height/2 + i and no other pixel: it
\* fills the half of the screen below the centre and leaves every row above
\* the centre as the wall pass left it.
C20_OnlyRowsBelowCentreWritten ==
    floorDrawn =>
        \A c \in Cells :
            /\ floorWrote(c) <=> (c \div Width >= Height \div 2 /\ stencilBuffer[c] # 1)
            /\ (c \div Width < Height \div 2 /\ stencilBuffer[c] # 1) => screenBuffer[c] = ClearedPixel

\* After the floor pass: a written pixel below the centre, a wall pixel below
\* the centre that was skipped, and a non-wall pixel above the centre that is
\* still cleared.
C20_Witness ==
    /\ floorDrawn
    /\ \E c \in Cells : c \div Width >= Height \div 2 /\ floorWrote(c) /\ screenBuffer[c] # ClearedPixel
    /\ \E c \in Cells : c \div Width >= Height \div 2 /\ stencilBuffer[c] = 1 /\ ~floorWrote(c)
    /\ \E c \in Cells : /\ c \div Width < Height \div 2
                        /\ stencilBuffer[c] # 1
                        /\ ~floorWrote(c)
                        /\ screenBuffer[c] = ClearedPixel

(***************************************************************************)
(* The coordinates the passes access, checked under Spec when the four     *)
(* passes of the frame have finished.                                      *)
(***************************************************************************)
passesDone ==
    pc = At("present")

\* <<x, y>> is a pixel of the screen.
inScreen(xy) ==
    xy[1] \in 0..(Width - 1) /\ xy[2] \in 0..(Height - 1)

\* The <<x, y>> given to the setters and index expressions by each pass.
wallCoords ==
    UNION {{<<wallScreenX(i), Height \div 2 - j>> : j \in wallRowsOf(i, scene, wallZ)} : i \in 0..(Width - 1)}

floorCoords ==
    {<<j, floorScreenY(i)>> : j \in 0..(Width - 1), i \in 0..(Height \div 2 - 1)}

spriteCoords ==
    UNION {spritePixels(spriteGeometry(k)) : k \in visibleSprites}

backgroundCoords ==
    {<<j, i>> : j \in backgroundColumns, i \in 0..(Height \div 2 - 1)}

passCoords(pass) ==
    CASE pass = "walls" -> wallCoords
      [] pass = "floor" -> floorCoords
      [] pass = "sprites" -> spriteCoords
      [] pass = "background" -> backgroundCoords

\* C21: every index at which the wall, floor/ceiling, sprite and background
\* passes read or write the screen, stencil or depth buffer lies in
\* [0, width * height), with x in [0, width) and y in [0, height): the accesses
\* of a pass are at the coordinates of its loops, and each of those is a pixel
\* of the screen.
C21_AccessesInsideScreen ==
    passesDone =>
        /\ \A pass \in Passes \cup {"sprites"} :
              \A xy \in passCoords(pass) :
                  /\ inScreen(xy)
                  /\ \E e \in log : e[1] = pass /\ e[5] = cellOf(xy[1], xy[2])
        /\ \A e \in log :
              /\ e[5] \in Cells
              /\ \E xy \in passCoords(e[1]) : e[5] = cellOf(xy[1], xy[2])

\* A wall column whose edges lie above and below the screen was drawn,
\* clipped to the rows 1 .. height - 1.
C21_Witness ==
    /\ passesDone
    /\ \E i \in 0..(Width - 1) :
          /\ RLt(wallPixelDistance(wallZ, i), RInt(FarPlane))
          /\ screenWallEdge(2, scene, wallPixelDistance(wallZ, i)) > Height \div 2
          /\ screenWallEdge(0, scene, wallPixelDistance(wallZ, i)) < -(Height \div 2)
          /\ wallRowsOf(i, scene, wallZ) = (1 - Height \div 2)..(Height \div 2 - 1)
          /\ <<"walls", 0, "write", "screen", cellOf(wallScreenX(i), 1)>> \in log

\* A sprite whose rectangle starts left of the screen was drawn, clipped.
C21_WitnessSprite ==
    /\ passesDone
    /\ \E k \in visibleSprites :
          /\ spriteGeometry(k).rect.left < 0
          /\ \E xy \in spritePixels(spriteGeometry(k)) :
                <<"sprites", -1, "write", "screen", cellOf(xy[1], xy[2])>> \in log

\* ---------------------------------------------------------------------------
\* C22: when the four passes of one renderMain call have finished, every
\* screen pixel has been written by at least one of them in that frame.
screenWritten(c) == \E e \in log : e[3] = "write" /\ e[4] = "screen" /\ e[5] = c

C22_EveryPixelWritten ==
    passesDone => \A c \in Cells : screenWritten(c)

\* The pixels no pass wrote are those of the last column of an odd width, in
\* the rows above the centre, that no wall and no sprite covers: the loop of
\* line 424 stops at 2 * (width / 2).
UnwrittenOnlyInLastColumnOfOddWidth ==
    passesDone =>
        \A c \in Cells :
            ~screenWritten(c) =>
                /\ Width % 2 = 1
                /\ c % Width = Width - 1
                /\ c \div Width < Height \div 2
                /\ depthBuffer[c] = RInt(1)
                /\ stencilBuffer[c] = 0
                /\ screenBuffer[c] = ClearedPixel

\* A frame in which the background left a pixel of the upper half untouched.
UnwrittenPixel ==
    passesDone /\ \E c \in Cells : ~screenWritten(c) /\ c % Width = Width - 1

\* ---------------------------------------------------------------------------
\* The rows in which the floor/ceiling pass of this frame has written a pixel,
\* and the rows the background pass of this frame has visited so far.
floorWrittenRows ==
    {c \div Width : c \in {d \in Cells : floorWrote(d)}}

backgroundVisitedRows(accesses) ==
    {e[5] \div Width : e \in {f \in accesses : f[1] = "background"}}

\* C23: the floor/ceiling pass leaves the depth of the pixels it colours at
\* 1.0, and still no step of the background pass changes the colour of a
\* pixel the floor/ceiling pass wrote in the same frame: the rows written by
\* the floor/ceiling pass and the rows the background pass visits are disjoint.
C23_BackgroundKeepsFloorPixels ==
    [][pc.stage = "background" =>
          /\ \A c \in Cells : floorWrote(c) => screenBuffer'[c] = screenBuffer[c]
          /\ floorWrittenRows \cap backgroundVisitedRows(log') = {}]_vars

\* The background pass has finished and has written sky pixels; a pixel the
\* floor/ceiling pass wrote still has depth 1.0, which the test of line 426
\* would not skip, and holds a colour that is not the sky's.
C23_Witness ==
    /\ passesDone
    /\ backgroundWritten # {}
    /\ backgroundVisitedRows(log) = 0..(Height \div 2 - 1)
    /\ \E c \in Cells :
          /\ floorWrote(c)
          /\ depthBuffer[c] = RInt(1)
          /\ screenBuffer[c] # skyColor
          /\ screenBuffer[c] # ClearedPixel

====
